---- MODULE Spec2Model ----
(***************************************************************************)
(* A model of the godagre layout engine of d2:                             *)
(*   src/d2layouts/d2dagrelayout/godagre/graph.go   the graph store        *)
(*   src/d2layouts/d2dagrelayout/godagre/layout.go  Layout and its phases  *)
(*   src/d2layouts/d2dagrelayout/godagre/order.go   order (crossings)      *)
(*   src/unnamed/part_002                           networkSimplex         *)
(*                                                                         *)
(* Numbers.  The code computes with float64.  Every length of the model is *)
(* a whole number of 1/Scale pixels; Scale is a power of two and the sizes *)
(* the model draws are whole pixels, so every halving the code performs is *)
(* exact here as it is in binary floating point.                           *)
(*                                                                         *)
(* Go maps.  The code ranges over map[string]*Node and map[string]*Edge.   *)
(* Go leaves the order of a map range unspecified: wherever the code       *)
(* ranges over a map the model takes any order.                            *)
(***************************************************************************)
EXTENDS Integers, Sequences, FiniteSets, TLC

VARIABLES
    g,              \* the *Graph handed to Layout (graph.go:7-30)
    g0,             \* history: the graph as it was when Layout was called
    opts,           \* the LayoutOptions handed to Layout (layout.go:8-23)
    pc,             \* the place Layout has reached
    reversedEdges,  \* makeAcyclic's reversedEdges (layout.go:87), as edge keys
    visited,        \* the visited map of the running depth-first search
                    \* (layout.go:90, part_002:114, part_002:341)
    onStack,        \* makeAcyclic's onStack (layout.go:91)
    todo,           \* the node ids the range over the nodes or roots has still to
                    \* yield (layout.go:113, part_002:137, part_002:364)
    stack,          \* the active calls of dfs, outermost first
                    \* (layout.go:94-110, part_002:117-133, part_002:345-360)
    rank,           \* assignRanks' rank (layout.go:125)
    changed,        \* assignRanks' changed (layout.go:133)
    runs,           \* history: the number of Layout calls started on this input
    prev,           \* history: what the first Layout call on this input returned
    ret,            \* the last call that returned: its name and its error result
    layers,         \* order's layers (order.go:11), as node ids
    bestCC,         \* order's bestCC (order.go:20)
    bestLayers,     \* order's bestLayers (order.go:21)
    sweep,          \* order's loop counter i (order.go:23)
    ccSeen,         \* history: the crossing count of the initial ordering, then
                    \* the count after each sweep
    simplex,        \* networkSimplex's simplex graph (part_002:10)
    exchanges,      \* history: the number of exchangeEdges calls so far
    rootIndex,      \* feasibleTree's loop index i (part_002:137)
    postorder,      \* updateTreeStructure's postorder (part_002:342)
    collapsedEdges, \* processCompoundGraph's collapsedEdges (part_002:413)
    router,         \* the edgeRouter, the nodes routeDifferentRankEdge is called
                    \* on and the locals of the call (part_003:9-16, 188-312)
    xs              \* position's xs, the alignments computed so far
                    \* (position.go:29)

vars == <<g, g0, opts, pc, reversedEdges, visited, onStack, todo, stack,
          rank, changed, runs, prev, ret, layers, bestCC, bestLayers, sweep,
          ccSeen, simplex, exchanges, rootIndex, postorder,
          collapsedEdges, router, xs>>

\* the locals of order and of networkSimplex
orderVars == <<layers, bestCC, bestLayers, sweep, ccSeen>>
simplexVars == <<simplex, exchanges, rootIndex, postorder>>
compoundVars == <<collapsedEdges>>
routerVars == <<router>>
positionVars == <<xs>>

----------------------------------------------------------------------------
(* Bounds of the model *)

\* the largest number of nodes of an input graph
MaxNodes == 3
\* the largest number of edges of an input graph of the structural family
MaxEdges == 3
\* the largest number of edges of an input graph of the geometric family
MaxGeomEdges == 2
\* the largest number of edges of an input graph of the compound family
MaxCompoundEdges == 1

\* the number of node ids and the largest number of edges and of parent entries a
\* graph built call by
\* call holds
\* the largest number of edges of the small and of the layered graphs
\* handed to order
MaxOrderEdges == 2
MaxLayeredEdges == 4

MaxApiNodes == 2
MaxApiEdges == 1
MaxApiParents == 2
\* the largest number of nodes and of edges of a graph handed to
\* networkSimplex, and the number of exchangeEdges calls the model follows
MaxSimplexNodes == 4
MaxSimplexEdges == 4
MaxExchanges == 4
\* the largest number of edges of a multigraph and of a graph with dangling
\* edges handed to networkSimplex, and the largest number of nodes of the
\* latter
MaxMultiEdges == 2
MaxDanglingNodes == 2
\* the largest number of edges of a compound graph of three nodes handed to
\* processCompoundGraph
MaxCollapseEdges == 2
\* the largest rank of a node handed to routeDifferentRankEdge, and the
\* number of iterations of its loop the model follows
MaxRouteRank == 3
MaxRouteSteps == 4
\* the number of nodes, the largest rank and the largest number of edges of
\* a graph handed to position
MaxPositionNodes == 4
MaxPositionRank == 2
MaxPositionEdges == 2

\* Ranks are counted up to RankCap and held there.  On an acyclic graph no
\* rank exceeds the node count minus one, so RankCap is reached only when
\* the relaxation of assignRanks never settles; Go's int goes on growing
\* there (and wraps after 2^63 steps, with the same comparison outcome).
RankCap == MaxNodes + 2

----------------------------------------------------------------------------
(* Numbers *)

Scale == 2 ^ 6
Px(n) == n * Scale
Half(x) == x \div 2

SetMin(S) == CHOOSE x \in S : \A y \in S : x <= y
SetMax(S) == CHOOSE x \in S : \A y \in S : x >= y

\* program constants, in pixels
DefaultNodeSep == 50
DefaultEdgeSep == 20
DefaultRankSep == 50
ContainerPadding == 30
TranslatePadding == 10
RouteGap == 10

\* math.MaxInt32
MaxInt32 == 2147483647
\* math.MinInt32
MinInt32 == 0 - MaxInt32 - 1
\* the distance between the Low of one root and of the next (part_002:140)
TreeGap == 10000
\* padding and nodeSep of adjustDimensionsRecursive (part_002:581-582)
DimensionPadding == 30
DimensionNodeSep == 50
\* rankSep of newEdgeRouter (part_003:23)
RouterRankSep == 50

----------------------------------------------------------------------------
(* Go maps and slices *)

EmptyMap == [x \in {} |-> 0]
Put(m, k, v) == [x \in DOMAIN m \cup {k} |-> IF x = k THEN v ELSE m[x]]

\* every order in which a range over a map with key set S can yield the keys
Orders(S) == {s \in [1..Cardinality(S) -> S] : \A i, j \in 1..Cardinality(S) : s[i] = s[j] => i = j}

Reverse(s) == [i \in 1..Len(s) |-> s[Len(s) + 1 - i]]
Last(s) == s[Len(s)]
Front(s) == SubSeq(s, 1, Len(s) - 1)
Range(s) == {s[i] : i \in 1..Len(s)}

\* the node ids callers use, in ascending order
NodeSeq == <<"a", "b", "c", "d", "e", "f", "g", "h">>
Ids(n) == {NodeSeq[i] : i \in 1..n}

----------------------------------------------------------------------------
(* graph.go *)

NewNode(id, attrs) ==
    [ID |-> id,
     Width |-> IF "width" \in DOMAIN attrs THEN Px(attrs["width"]) ELSE 0,
     Height |-> IF "height" \in DOMAIN attrs THEN Px(attrs["height"]) ELSE 0,
     X |-> 0, Y |-> 0, Rank |-> 0, Order |-> 0,
     Low |-> 0, Lim |-> 0, Parent |-> "", Dummy |-> FALSE,
     attrs |-> [k \in DOMAIN attrs \ {"width", "height"} |-> attrs[k]]]

NewEdge(v, w, attrs, name) ==
    [V |-> v, W |-> w, Name |-> name,
     Width |-> IF "width" \in DOMAIN attrs THEN Px(attrs["width"]) ELSE 0,
     Height |-> IF "height" \in DOMAIN attrs THEN Px(attrs["height"]) ELSE 0,
     Weight |-> 0, Minlen |-> 0, Cutvalue |-> 0, Tree |-> FALSE,
     Points |-> <<>>, X |-> 0, Y |-> 0,
     attrs |-> [k \in DOMAIN attrs \ {"width", "height"} |-> attrs[k]]]

NewGraph(o) ==
    [compound |-> o.Compound, multigraph |-> o.Multigraph, directed |-> o.Directed,
     attrs |-> EmptyMap,
     nodes |-> EmptyMap, nodeCount |-> 0,
     edges |-> EmptyMap, edgeCount |-> 0,
     parent |-> EmptyMap, children |-> EmptyMap,
     maxRank |-> 0, minRank |-> 0]

SetGraph(gr, attrs) ==
    [gr EXCEPT !.attrs = [k \in DOMAIN gr.attrs \cup DOMAIN attrs |->
                            IF k \in DOMAIN attrs THEN attrs[k] ELSE gr.attrs[k]]]

SetNode(gr, id, attrs) ==
    [gr EXCEPT !.nodeCount = IF id \in DOMAIN gr.nodes THEN @ ELSE @ + 1,
               !.nodes = Put(gr.nodes, id, NewNode(id, attrs))]

Nodes(gr) == DOMAIN gr.nodes

edgeKey(gr, v, w, name) ==
    IF gr.multigraph /\ name # ""
    THEN v \o "->" \o w \o "[" \o name \o "]"
    ELSE v \o "->" \o w

SetEdge(gr, v, w, attrs, name) ==
    LET key == edgeKey(gr, v, w, name) IN
    [gr EXCEPT !.edgeCount = IF key \in DOMAIN gr.edges THEN @ ELSE @ + 1,
               !.edges = Put(gr.edges, key, NewEdge(v, w, attrs, name))]

Edges(gr) == DOMAIN gr.edges

OutEdges(gr, v) == {k \in DOMAIN gr.edges : gr.edges[k].V = v}

\* removeChild deletes the first occurrence of child in children[parent]
RECURSIVE DropFirst(_, _)
DropFirst(s, c) ==
    IF s = <<>> THEN <<>>
    ELSE IF Head(s) = c THEN Tail(s)
    ELSE <<Head(s)>> \o DropFirst(Tail(s), c)

\* mutant of removeChild: the child stays in the list
removeChildNothing(gr, p, c) == gr

removeChild(gr, p, c) ==
    IF p \in DOMAIN gr.children
    THEN [gr EXCEPT !.children = Put(gr.children, p, DropFirst(gr.children[p], c))]
    ELSE gr

\* mutant of SetParent: the graph kind is not looked at
SetParentUnchecked(gr, c, p) ==
    LET g1 == IF c \in DOMAIN gr.parent THEN removeChild(gr, gr.parent[c], c) ELSE gr
        old == IF p \in DOMAIN g1.children THEN g1.children[p] ELSE <<>>
    IN [g1 EXCEPT !.parent = Put(g1.parent, c, p),
                  !.children = Put(g1.children, p, Append(old, c))]

\* SetParent on a compound graph; on another graph it returns an error and
\* changes nothing
SetParent(gr, c, p) ==
    IF ~gr.compound THEN gr
    ELSE LET g1 == IF c \in DOMAIN gr.parent THEN removeChild(gr, gr.parent[c], c) ELSE gr
             old == IF p \in DOMAIN g1.children THEN g1.children[p] ELSE <<>>
         IN [g1 EXCEPT !.parent = Put(g1.parent, c, p),
                       !.children = Put(g1.children, p, Append(old, c))]

\* RemoveEdge deletes the edge stored under the key of (v, w, name), if any
RemoveEdge(gr, v, w, name) ==
    LET key == edgeKey(gr, v, w, name) IN
    IF key \in DOMAIN gr.edges
    THEN [gr EXCEPT !.edges = [k \in DOMAIN gr.edges \ {key} |-> gr.edges[k]],
                    !.edgeCount = @ - 1]
    ELSE gr

\* RemoveNode: nothing for an id that is no node; else the edges that touch
\* the node go, the node leaves its parent's children, its parent entry and
\* the node itself go.  children[id] and the parent entries of the node's
\* own children are not touched.
RemoveNode(gr, id) ==
    IF id \notin DOMAIN gr.nodes THEN gr
    ELSE LET gone == {k \in DOMAIN gr.edges : gr.edges[k].V = id \/ gr.edges[k].W = id}
             g1 == [gr EXCEPT !.edges = [k \in DOMAIN gr.edges \ gone |-> gr.edges[k]],
                              !.edgeCount = @ - Cardinality(gone)]
             g2 == IF id \in DOMAIN g1.parent
                   THEN [removeChild(g1, g1.parent[id], id)
                            EXCEPT !.parent = [c \in DOMAIN g1.parent \ {id} |-> g1.parent[c]]]
                   ELSE g1
         IN [g2 EXCEPT !.nodes = [n \in DOMAIN g2.nodes \ {id} |-> g2.nodes[n]],
                       !.nodeCount = @ - 1]

\* what SetParent returns
SetParentErr(gr) == IF ~gr.compound THEN "cannot set parent on non-compound graph" ELSE "nil"

\* no call has returned yet
NoCall == [op |-> "", err |-> "nil"]

----------------------------------------------------------------------------
(* layout.go: Layout, makeAcyclic *)

DefaultLayoutOptions ==
    [NodeSep |-> DefaultNodeSep, EdgeSep |-> DefaultEdgeSep, RankSep |-> DefaultRankSep,
     RankDir |-> "TB", Align |-> "UL", Ranker |-> "network-simplex", Acyclicer |-> "greedy"]

\* the attributes Layout stores in the graph (layout.go:41-49)
LayoutAttrs(o) ==
    [nodesep |-> Px(o.NodeSep), edgesep |-> Px(o.EdgeSep), ranksep |-> Px(o.RankSep),
     rankdir |-> o.RankDir, align |-> o.Align, ranker |-> o.Ranker,
     acyclicer |-> o.Acyclicer]

\* Layout is called: the options are stored and makeAcyclic starts
LayoutBegin ==
    /\ pc = "start"
    /\ g' = SetGraph(g, LayoutAttrs(opts))
    /\ reversedEdges' = <<>>
    /\ visited' = {}
    /\ onStack' = {}
    /\ todo' = Nodes(g)
    /\ stack' = <<>>
    /\ runs' = runs + 1
    /\ pc' = "acyclic"
    /\ UNCHANGED <<g0, opts, ret, orderVars, simplexVars, compoundVars, routerVars, positionVars, rank, changed, prev>>

\* mutant of reverseBackEdge: the back edge is recorded but left as it is
reverseNothing(e) == e

\* a back edge is reversed in place (layout.go:104)
reverseBackEdge(e) == [e EXCEPT !.V = e.W, !.W = e.V]

\* the frame of a call dfs(v): the edges its range over g.OutEdges(v) has
\* still to yield
dfsFrame(gr, v) == [v |-> v, todo |-> OutEdges(gr, v)]

\* the range over g.Nodes() yields its next id; dfs is called on it if it
\* was not visited (layout.go:113-117)
DfsVisit ==
    /\ pc = "acyclic"
    /\ stack = <<>>
    /\ \E v \in todo :
          /\ todo' = todo \ {v}
          /\ IF v \notin visited
             THEN /\ visited' = visited \cup {v}
                  /\ onStack' = onStack \cup {v}
                  /\ stack' = <<dfsFrame(g, v)>>
             ELSE UNCHANGED <<visited, onStack, stack>>
    /\ UNCHANGED <<g, g0, opts, ret, orderVars, simplexVars, compoundVars, routerVars, positionVars, pc, reversedEdges, rank, changed, runs, prev>>

\* the innermost dfs takes the next of its out-edges (layout.go:98-107)
DfsEdge ==
    /\ pc = "acyclic"
    /\ stack # <<>>
    /\ \E k \in Last(stack).todo :
          LET w == g.edges[k].W
              rest == [stack EXCEPT ![Len(stack)].todo = @ \ {k}]
          IN IF w \notin visited
             THEN /\ visited' = visited \cup {w}
                  /\ onStack' = onStack \cup {w}
                  /\ stack' = Append(rest, dfsFrame(g, w))
                  /\ UNCHANGED <<g, reversedEdges>>
             ELSE IF w \in onStack
             THEN /\ g' = [g EXCEPT !.edges[k] = reverseBackEdge(@)]
                  /\ reversedEdges' = Append(reversedEdges, k)
                  /\ stack' = rest
                  /\ UNCHANGED <<visited, onStack>>
             ELSE /\ stack' = rest
                  /\ UNCHANGED <<g, reversedEdges, visited, onStack>>
    /\ UNCHANGED <<g0, opts, ret, orderVars, simplexVars, compoundVars, routerVars, positionVars, pc, todo, rank, changed, runs, prev>>

\* the innermost dfs has no out-edge left and returns (layout.go:109)
DfsReturn ==
    /\ pc = "acyclic"
    /\ stack # <<>>
    /\ Last(stack).todo = {}
    /\ onStack' = onStack \ {Last(stack).v}
    /\ stack' = Front(stack)
    /\ UNCHANGED <<g, g0, opts, ret, orderVars, simplexVars, compoundVars, routerVars, positionVars, pc, reversedEdges, visited, todo, rank, changed, runs, prev>>

\* makeAcyclic returns and assignRanks starts with every rank 0
\* (layout.go:119, 125-133)
MakeAcyclicReturn ==
    /\ pc = "acyclic"
    /\ stack = <<>>
    /\ todo = {}
    /\ rank' = [v \in Nodes(g) |-> 0]
    /\ changed' = TRUE
    /\ pc' = "rank"
    /\ UNCHANGED <<g, g0, opts, ret, orderVars, simplexVars, compoundVars, routerVars, positionVars, reversedEdges, visited, onStack, todo, stack, runs, prev>>

----------------------------------------------------------------------------
(* layout.go: assignRanks *)

\* rank[id] of a Go map[string]int: 0 for an absent key
rankOf(r, id) == IF id \in DOMAIN r THEN r[id] ELSE 0

CapRank(n) == IF n > RankCap THEN RankCap ELSE n

\* the body of the range over g.Edges() for one edge (layout.go:137-140)
relaxEdge(st, e) ==
    IF rankOf(st.rank, e.W) <= rankOf(st.rank, e.V)
    THEN [rank |-> Put(st.rank, e.W, CapRank(rankOf(st.rank, e.V) + 1)), changed |-> TRUE]
    ELSE st

\* one range over g.Edges(), the edges yielded in the order `order`
RECURSIVE relaxAll(_, _, _)
relaxAll(gr, st, order) ==
    IF order = <<>> THEN st
    ELSE relaxAll(gr, relaxEdge(st, gr.edges[Head(order)]), Tail(order))

\* node.Rank is written for every id of rank that is a node (layout.go:145-149)
writeRanks(gr, r) ==
    [gr EXCEPT !.nodes = [id \in DOMAIN gr.nodes |->
        IF id \in DOMAIN r THEN [gr.nodes[id] EXCEPT !.Rank = r[id]] ELSE gr.nodes[id]]]

\* the test of `for changed` (layout.go:134-135): another pass, or the loop
\* is left and the ranks are written to the nodes
RankLoopTest ==
    /\ pc = "rank"
    /\ IF changed
       THEN /\ changed' = FALSE
            /\ pc' = "rankpass"
            /\ UNCHANGED g
       ELSE /\ g' = writeRanks(g, rank)
            /\ pc' = "order"
            /\ UNCHANGED changed
    /\ UNCHANGED <<g0, opts, ret, orderVars, simplexVars, compoundVars, routerVars, positionVars, reversedEdges, visited, onStack, todo, stack, rank, runs, prev>>

\* one pass over every edge (layout.go:136-141)
RankPass ==
    /\ pc = "rankpass"
    /\ \E order \in Orders(Edges(g)) :
          LET st == relaxAll(g, [rank |-> rank, changed |-> changed], order)
          IN /\ rank' = st.rank
             /\ changed' = st.changed
    /\ pc' = "rank"
    /\ UNCHANGED <<g, g0, opts, ret, orderVars, simplexVars, compoundVars, routerVars, positionVars, reversedEdges, visited, onStack, todo, stack, runs, prev>>

----------------------------------------------------------------------------
(* layout.go: orderNodes, assignPositions *)

\* the nodes of rank r in the order in which the range over g.Nodes()
\* appended them to ranks[r] (layout.go:158-164, 184-190)
RECURSIVE rankSlice(_, _, _)
rankSlice(gr, order, r) ==
    IF order = <<>> THEN <<>>
    ELSE IF gr.nodes[Head(order)].Rank = r
         THEN <<Head(order)>> \o rankSlice(gr, Tail(order), r)
         ELSE rankSlice(gr, Tail(order), r)

maxRankOf(gr) == SetMax({0} \cup {gr.nodes[id].Rank : id \in DOMAIN gr.nodes})

IndexOf(s, x) == CHOOSE i \in 1..Len(s) : s[i] = x

\* orderNodes, g.Nodes() yielding the ids in the order `order`: every node
\* gets its index in its rank's slice (layout.go:167-172)
orderNodes(gr, order) ==
    [gr EXCEPT !.nodes = [id \in DOMAIN gr.nodes |->
        IF gr.nodes[id].Rank \in 0..maxRankOf(gr)
        THEN [gr.nodes[id] EXCEPT !.Order = IndexOf(rankSlice(gr, order, gr.nodes[id].Rank), id) - 1]
        ELSE gr.nodes[id]]]

OrderNodes ==
    /\ pc = "order"
    /\ \E order \in Orders(Nodes(g)) : g' = orderNodes(g, order)
    /\ pc' = "position"
    /\ UNCHANGED <<g0, opts, ret, orderVars, simplexVars, compoundVars, routerVars, positionVars, reversedEdges, visited, onStack, todo, stack, rank, changed, runs, prev>>

SwapAt(s, i, j) == [s EXCEPT ![i] = s[j], ![j] = s[i]]

\* the exchange sort of a rank's slice by Order (layout.go:201-207)
RECURSIVE sortByOrder(_, _, _, _)
sortByOrder(nm, s, i, j) ==
    IF i >= Len(s) THEN s
    ELSE IF j > Len(s) THEN sortByOrder(nm, s, i + 1, i + 2)
    ELSE IF nm[s[i]].Order > nm[s[j]].Order
         THEN sortByOrder(nm, SwapAt(s, i, j), i, j + 1)
         ELSE sortByOrder(nm, s, i, j + 1)

\* the nodes of one rank are laid side by side from x on (layout.go:210-222)
RECURSIVE placeRow(_, _, _, _, _, _, _)
placeRow(nm, s, x, r, dir, nodeSep, rankSep) ==
    IF s = <<>> THEN [nodes |-> nm, x |-> x]
    ELSE LET n == nm[Head(s)] IN
         IF dir \in {"TB", "BT"}
         THEN placeRow([nm EXCEPT ![Head(s)].X = x + Half(n.Width),
                                  ![Head(s)].Y = r * rankSep + Half(n.Height)],
                       Tail(s), x + n.Width + nodeSep, r, dir, nodeSep, rankSep)
         ELSE IF dir \in {"LR", "RL"}
         THEN placeRow([nm EXCEPT ![Head(s)].Y = x + Half(n.Height),
                                  ![Head(s)].X = r * rankSep + Half(n.Width)],
                       Tail(s), x + n.Height + nodeSep, r, dir, nodeSep, rankSep)
         ELSE placeRow(nm, Tail(s), x, r, dir, nodeSep, rankSep)

\* the rank is centred on 0 (layout.go:225-236)
centreRow(nm, s, x, dir, nodeSep) ==
    LET offset == 0 - Half(x - nodeSep) IN
    [id \in DOMAIN nm |->
        IF id \in Range(s) /\ dir \in {"TB", "BT"} THEN [nm[id] EXCEPT !.X = @ + offset]
        ELSE IF id \in Range(s) /\ dir \in {"LR", "RL"} THEN [nm[id] EXCEPT !.Y = @ + offset]
        ELSE nm[id]]

\* the body of the loop over the ranks, for rank r (layout.go:197-237)
placeRank(gr, nm, order, r) ==
    LET s == sortByOrder(nm, rankSlice(gr, order, r), 1, 2)
        dir == gr.attrs["rankdir"]
        row == placeRow(nm, s, 0, r, dir, gr.attrs["nodesep"], gr.attrs["ranksep"])
    IN IF s = <<>> THEN nm ELSE centreRow(row.nodes, s, row.x, dir, gr.attrs["nodesep"])

RECURSIVE placeRanks(_, _, _, _)
placeRanks(gr, nm, order, r) ==
    IF r > maxRankOf(gr) THEN nm
    ELSE placeRanks(gr, placeRank(gr, nm, order, r), order, r + 1)

\* the flip of the rank axis for BT and RL (layout.go:240-267)
flipRankAxis(nm, dir) ==
    IF dir = "BT"
    THEN LET maxY == SetMax({0} \cup {nm[id].Y : id \in DOMAIN nm})
         IN [id \in DOMAIN nm |-> [nm[id] EXCEPT !.Y = maxY - @]]
    ELSE IF dir = "RL"
    THEN LET maxX == SetMax({0} \cup {nm[id].X : id \in DOMAIN nm})
         IN [id \in DOMAIN nm |-> [nm[id] EXCEPT !.X = maxX - @]]
    ELSE nm

assignPositions(gr, order) ==
    [gr EXCEPT !.nodes = flipRankAxis(placeRanks(gr, gr.nodes, order, 0), gr.attrs["rankdir"])]

AssignPositions ==
    /\ pc = "position"
    /\ \E order \in Orders(Nodes(g)) : g' = assignPositions(g, order)
    /\ pc' = "containers"
    /\ UNCHANGED <<g0, opts, ret, orderVars, simplexVars, compoundVars, routerVars, positionVars, reversedEdges, visited, onStack, todo, stack, rank, changed, runs, prev>>

----------------------------------------------------------------------------
(* layout.go: adjustContainerSizes *)

\* the keys of the map parents (layout.go:424-429)
parentsOf(gr) == {gr.parent[c] : c \in DOMAIN gr.parent} \ {""}

\* the children of p that are nodes (layout.go:443-446)
childNodes(gr, p) == {c \in DOMAIN gr.parent : gr.parent[c] = p /\ c \in DOMAIN gr.nodes}

\* the body of the loop over parents for parent p: p becomes the padded
\* bounding box of its children as they are now (layout.go:433-469)
fitContainer(gr, p) ==
    LET kids == childNodes(gr, p)
        pad == Px(ContainerPadding)
        minX == SetMin({gr.nodes[c].X - Half(gr.nodes[c].Width) : c \in kids}) - pad
        maxX == SetMax({gr.nodes[c].X + Half(gr.nodes[c].Width) : c \in kids}) + pad
        minY == SetMin({gr.nodes[c].Y - Half(gr.nodes[c].Height) : c \in kids}) - pad
        maxY == SetMax({gr.nodes[c].Y + Half(gr.nodes[c].Height) : c \in kids}) + pad
    IN IF p \notin DOMAIN gr.nodes \/ kids = {} THEN gr
       ELSE [gr EXCEPT !.nodes[p].X = Half(minX + maxX),
                       !.nodes[p].Y = Half(minY + maxY),
                       !.nodes[p].Width = maxX - minX,
                       !.nodes[p].Height = maxY - minY]

RECURSIVE fitContainers(_, _)
fitContainers(gr, order) ==
    IF order = <<>> THEN gr ELSE fitContainers(fitContainer(gr, Head(order)), Tail(order))

\* adjustContainerSizes, the range over parents yielding the ids in the
\* order `order`
adjustContainerSizes(gr, order) ==
    IF ~gr.compound THEN gr ELSE fitContainers(gr, order)

AdjustContainerSizes ==
    /\ pc = "containers"
    /\ \E order \in Orders(parentsOf(g)) : g' = adjustContainerSizes(g, order)
    /\ pc' = "route"
    /\ UNCHANGED <<g0, opts, ret, orderVars, simplexVars, compoundVars, routerVars, positionVars, reversedEdges, visited, onStack, todo, stack, rank, changed, runs, prev>>

----------------------------------------------------------------------------
(* layout.go: routeEdges, the restoration of reversed edges *)

Pt(x, y) == [X |-> x, Y |-> y]

\* the points of an edge between nodes of different rank (layout.go:285-349)
routePoints(src, dst, dir) ==
    LET gap == Px(RouteGap)
        down == src.Rank < dst.Rank
        exitY == IF down THEN src.Y + Half(src.Height) + gap ELSE src.Y - Half(src.Height) - gap
        enterY == IF down THEN dst.Y - Half(dst.Height) - gap ELSE dst.Y + Half(dst.Height) + gap
        midY == Half(exitY + enterY)
        exitX == IF down THEN src.X + Half(src.Width) + gap ELSE src.X - Half(src.Width) - gap
        enterX == IF down THEN dst.X - Half(dst.Width) - gap ELSE dst.X + Half(dst.Width) + gap
        midX == Half(exitX + enterX)
    IN IF dir = "TB" \/ dir = "BT"
       THEN <<Pt(src.X, src.Y), Pt(src.X, exitY), Pt(src.X, midY),
              Pt(dst.X, midY), Pt(dst.X, enterY), Pt(dst.X, dst.Y)>>
       ELSE <<Pt(src.X, src.Y), Pt(exitX, src.Y), Pt(midX, src.Y),
              Pt(midX, dst.Y), Pt(enterX, dst.Y), Pt(dst.X, dst.Y)>>

\* the body of the loop of routeEdges for one edge (layout.go:275-361)
routeEdge(gr, e) ==
    IF e.V \notin DOMAIN gr.nodes \/ e.W \notin DOMAIN gr.nodes THEN e
    ELSE LET src == gr.nodes[e.V]
             dst == gr.nodes[e.W]
         IN [e EXCEPT !.Points = IF src.Rank # dst.Rank
                                 THEN routePoints(src, dst, gr.attrs["rankdir"])
                                 ELSE <<Pt(src.X, src.Y), Pt(dst.X, dst.Y)>>,
                      !.X = Half(src.X + dst.X),
                      !.Y = Half(src.Y + dst.Y)]

routeEdges(gr) ==
    [gr EXCEPT !.edges = [k \in DOMAIN gr.edges |-> routeEdge(gr, gr.edges[k])]]

RouteEdges ==
    /\ pc = "route"
    /\ g' = routeEdges(g)
    /\ pc' = "restore"
    /\ UNCHANGED <<g0, opts, ret, orderVars, simplexVars, compoundVars, routerVars, positionVars, reversedEdges, visited, onStack, todo, stack, rank, changed, runs, prev>>

\* mutant of restoreEdge: the points are reversed, the endpoints are not
\* swapped back
restoreEdgeNoSwap(e) == [e EXCEPT !.Points = Reverse(e.Points)]

\* the body of the loop over reversedEdges (layout.go:72-76)
restoreEdge(e) == [e EXCEPT !.V = e.W, !.W = e.V, !.Points = Reverse(e.Points)]

RECURSIVE restoreEdges(_, _)
restoreEdges(gr, rev) ==
    IF rev = <<>> THEN gr
    ELSE restoreEdges([gr EXCEPT !.edges[Head(rev)] = restoreEdge(@)], Tail(rev))

RestoreReversed ==
    /\ pc = "restore"
    /\ g' = restoreEdges(g, reversedEdges)
    /\ pc' = "dimensions"
    /\ UNCHANGED <<g0, opts, ret, orderVars, simplexVars, compoundVars, routerVars, positionVars, reversedEdges, visited, onStack, todo, stack, rank, changed, runs, prev>>

----------------------------------------------------------------------------
(* layout.go: calculateGraphDimensions *)

\* the translation of the nodes (layout.go:387-391)
translateNode(n, dx, dy) == [n EXCEPT !.X = @ + dx, !.Y = @ + dy]

\* the translation of an edge (layout.go:394-401): the range over
\* edge.Points hands the loop body a copy p of each point, so the additions
\* to p.X and p.Y are lost; the label anchor is moved
translateEdge(e, dx, dy) == [e EXCEPT !.X = @ + dx, !.Y = @ + dy]

\* calculateGraphDimensions after its call of adjustContainerSizes
\* (layout.go:369-413)
graphDimensions(gr) ==
    LET ids == DOMAIN gr.nodes
        minX == SetMin({gr.nodes[id].X - Half(gr.nodes[id].Width) : id \in ids})
        maxX == SetMax({gr.nodes[id].X + Half(gr.nodes[id].Width) : id \in ids})
        minY == SetMin({gr.nodes[id].Y - Half(gr.nodes[id].Height) : id \in ids})
        maxY == SetMax({gr.nodes[id].Y + Half(gr.nodes[id].Height) : id \in ids})
        dx == Px(TranslatePadding) - minX
        dy == Px(TranslatePadding) - minY
    IN IF ids = {}
       THEN SetGraph(gr, [width |-> "-Inf", height |-> "-Inf"])
       ELSE IF minX < 0 \/ minY < 0
       THEN SetGraph([gr EXCEPT !.nodes = [id \in ids |-> translateNode(gr.nodes[id], dx, dy)],
                                !.edges = [k \in DOMAIN gr.edges |-> translateEdge(gr.edges[k], dx, dy)]],
                     [width |-> maxX - minX, height |-> maxY - minY])
       ELSE SetGraph(gr, [width |-> maxX - minX, height |-> maxY - minY])

calculateGraphDimensions(gr, order) == graphDimensions(adjustContainerSizes(gr, order))

\* calculateGraphDimensions runs and Layout returns nil (layout.go:80-82)
CalculateGraphDimensions ==
    /\ pc = "dimensions"
    /\ \E order \in Orders(parentsOf(g)) : g' = calculateGraphDimensions(g, order)
    /\ pc' = "done"
    /\ ret' = [op |-> "Layout", err |-> "nil"]
    /\ UNCHANGED <<g0, opts, orderVars, simplexVars, compoundVars, routerVars, positionVars, reversedEdges, visited, onStack, todo, stack, rank, changed, runs, prev>>

----------------------------------------------------------------------------
(* order.go: order *)

\* string(rune(k)) is the string of the one character with code k.  The
\* characters with the codes 0, 1, 2, 3 are control characters; they are
\* written here in caret notation.
Runes == <<"^@", "^A", "^B", "^C">>
RuneString(k) == Runes[k + 1]

\* the id of the dummy node number k (order.go:76)
dummyID(k) == "_d" \o RuneString(k)

\* the ids of the model in ascending order of Go's string comparison: "_"
\* (0x5F) comes before every lower-case letter, and the dummy ids differ in
\* their third character
IdOrder == [k \in 1..Len(Runes) |-> dummyID(k - 1)] \o NodeSeq
IdLess(x, y) == IndexOf(IdOrder, x) < IndexOf(IdOrder, y)

\* sort.Slice of a layer by id (order.go:125-127)
RECURSIVE SortIds(_)
SortIds(S) ==
    IF S = {} THEN <<>>
    ELSE LET m == CHOOSE x \in S : \A y \in S \ {x} : IdLess(x, y)
         IN <<m>> \o SortIds(S \ {m})

\* buildLayers: the nodes of every rank from 0 to the largest rank.  The
\* slices are filled in the order of a map range; initOrder sorts every
\* one of them before anything reads their order, so until then a layer is
\* kept as the set of its ids.
buildLayers(gr) ==
    [i \in 1..(maxRankOf(gr) + 1) |-> {id \in DOMAIN gr.nodes : gr.nodes[id].Rank = i - 1}]

Abs(n) == IF n < 0 THEN -n ELSE n

\* the loop that replaces one long edge by a chain (order.go:74-93): the
\* dummy of rank r is created, put into layer r and linked to prev
RECURSIVE addChain(_, _, _, _)
addChain(st, prevID, r, wRank) ==
    IF r >= wRank THEN [st EXCEPT !.prev = prevID]
    ELSE LET id == dummyID(st.dummyCount)
             g1 == SetNode(st.g, id, EmptyMap)
             g2 == [g1 EXCEPT !.nodes[id] = [@ EXCEPT !.Dummy = TRUE, !.Rank = r,
                                                       !.Width = 0, !.Height = 0]]
             g3 == SetEdge(g2, prevID, id, EmptyMap, "")
         IN addChain([st EXCEPT !.g = g3,
                                !.dummyCount = @ + 1,
                                !.layers[r + 1] = @ \cup {id}],
                     id, r + 1, wRank)

\* the body of the range over g.edges for one edge (order.go:62-97)
addDummiesFor(st, k) ==
    IF k \notin DOMAIN st.g.edges THEN st
    ELSE LET edge == st.g.edges[k]
             v == edge.V
             w == edge.W
         IN IF v \notin DOMAIN st.g.nodes \/ w \notin DOMAIN st.g.nodes
            THEN st
            ELSE IF Abs(st.g.nodes[w].Rank - st.g.nodes[v].Rank) > 1
            THEN LET s1 == addChain([st EXCEPT !.toRemove = Append(@, [V |-> v, W |-> w, Name |-> edge.Name])],
                                    v, st.g.nodes[v].Rank + 1, st.g.nodes[w].Rank)
                 IN [s1 EXCEPT !.g = SetEdge(s1.g, s1.prev, w, EmptyMap, "")]
            ELSE st

RECURSIVE addDummiesAll(_, _)
addDummiesAll(st, eo) ==
    IF eo = <<>> THEN st ELSE addDummiesAll(addDummiesFor(st, Head(eo)), Tail(eo))

RECURSIVE removeEdges(_, _)
removeEdges(gr, es) ==
    IF es = <<>> THEN gr
    ELSE removeEdges(RemoveEdge(gr, Head(es).V, Head(es).W, Head(es).Name), Tail(es))

\* addDummyNodes, the range over g.edges yielding the edges in the order eo
\* (the chain edges added meanwhile join adjacent ranks and are passed
\* over if the range yields them)
addDummyNodes(gr, lay, eo) ==
    LET st == addDummiesAll([g |-> gr, layers |-> lay, dummyCount |-> 0,
                             toRemove |-> <<>>, prev |-> ""], eo)
    IN [g |-> removeEdges(st.g, st.toRemove), layers |-> st.layers]

\* node.Order = i for every node of one layer (order.go:130-132, 199-201,
\* 262-264)
setLayerOrder(gr, layer) ==
    LET idx == [i \in 1..Len(layer) |-> i - 1]
        at == [id \in Range(layer) |-> idx[IndexOf(layer, id)]]
    IN [gr EXCEPT !.nodes = [id \in DOMAIN gr.nodes |->
          IF id \in DOMAIN at THEN [gr.nodes[id] EXCEPT !.Order = at[id]] ELSE gr.nodes[id]]]

\* the same for every layer, one after the other
RECURSIVE setOrders(_, _, _)
setOrders(gr, lay, i) ==
    IF i > Len(lay) THEN gr ELSE setOrders(setLayerOrder(gr, lay[i]), lay, i + 1)

\* initOrder: every layer sorted by id, every node numbered.  The In and
\* Out lists it builds hold the edges into and out of each node; no edge
\* is added or removed until removeDummyNodes, so the model reads them
\* from g.edges.
initOrder(gr, laySets) ==
    LET lay == [i \in 1..Len(laySets) |-> SortIds(laySets[i])]
    IN [g |-> setOrders(gr, lay, 1), layers |-> lay]

nodeOut(gr, id) == {k \in DOMAIN gr.edges : gr.edges[k].V = id}
nodeIn(gr, id) == {k \in DOMAIN gr.edges : gr.edges[k].W = id}

RECURSIVE SumOver(_, _, _)
SumOver(S, f(_), acc) ==
    IF S = {} THEN acc
    ELSE LET x == CHOOSE y \in S : TRUE IN SumOver(S \ {x}, f, acc + f(x))

\* the barycenter of a node as the fraction <<sum, weight>>, or its own
\* order when the weights of its edges add up to 0 (order.go:156-187)
barycenter(gr, id, downward) ==
    LET es == IF downward THEN nodeOut(gr, id) ELSE nodeIn(gr, id)
        other(k) == IF downward THEN gr.edges[k].W ELSE gr.edges[k].V
        known == {k \in es : other(k) \in DOMAIN gr.nodes}
        term(k) == gr.nodes[other(k)].Order * gr.edges[k].Weight
        wt(k) == gr.edges[k].Weight
        sum == SumOver(known, term, 0)
        weight == SumOver(known, wt, 0)
    IN IF weight > 0 THEN <<sum, weight>> ELSE <<gr.nodes[id].Order, 1>>

\* the comparison of sort.Slice in sweepLayer (order.go:190-196): two
\* fractions of small whole numbers are within 1e-6 only when they are equal
baryLess(b, x, y) ==
    IF b[x][1] * b[y][2] = b[y][1] * b[x][2] THEN IdLess(x, y)
    ELSE b[x][1] * b[y][2] < b[y][1] * b[x][2]

RECURSIVE SortByBary(_, _)
SortByBary(S, b) ==
    IF S = {} THEN <<>>
    ELSE LET m == CHOOSE x \in S : \A y \in S \ {x} : baryLess(b, x, y)
         IN <<m>> \o SortByBary(S \ {m}, b)

\* sweepLayer (order.go:152-202)
sweepLayer(st, idx, downward) ==
    LET layer == st.layers[idx + 1]
        b == [id \in Range(layer) |-> barycenter(st.g, id, downward)]
        sorted == SortByBary(Range(layer), b)
    IN [g |-> setLayerOrder(st.g, sorted), layers |-> [st.layers EXCEPT ![idx + 1] = sorted]]

RECURSIVE sweepDown(_, _)
sweepDown(st, i) ==
    IF i >= Len(st.layers) THEN st ELSE sweepDown(sweepLayer(st, i, TRUE), i + 1)

RECURSIVE sweepUp(_, _)
sweepUp(st, i) ==
    IF i < 0 THEN st ELSE sweepUp(sweepLayer(st, i, FALSE), i - 1)

\* sweepLayerGraphs (order.go:137-149)
sweepLayerGraphs(st, iter) ==
    IF iter % 2 = 0 THEN sweepDown(st, 1) ELSE sweepUp(st, Len(st.layers) - 2)

\* pos2[id] of bilayerCrossCount: 0 for an id that is not in layer2
posIn(layer, id) == IF id \in Range(layer) THEN IndexOf(layer, id) - 1 ELSE 0

\* bilayerCrossCount (order.go:216-247): the pairs of an out-edge of a node
\* of layer1 and an out-edge of a later node of layer1 whose targets are
\* in inverted positions
bilayerCrossCount(gr, layer1, layer2) ==
    Cardinality({q \in (DOMAIN gr.edges) \X (DOMAIN gr.edges) :
        /\ gr.edges[q[1]].V \in Range(layer1)
        /\ gr.edges[q[2]].V \in Range(layer1)
        /\ IndexOf(layer1, gr.edges[q[1]].V) < IndexOf(layer1, gr.edges[q[2]].V)
        /\ posIn(layer2, gr.edges[q[1]].W) > posIn(layer2, gr.edges[q[2]].W)})

RECURSIVE crossingsFrom(_, _, _)
crossingsFrom(gr, lay, i) ==
    IF i >= Len(lay) THEN 0
    ELSE bilayerCrossCount(gr, lay[i], lay[i + 1]) + crossingsFrom(gr, lay, i + 1)

\* crossingCount (order.go:205-213)
crossingCount(gr, lay) == crossingsFrom(gr, lay, 1)

\* the number of sweeps of order (order.go:23)
Sweeps == 24

\* order is called: buildLayers, addDummyNodes, initOrder and the first
\* values of bestCC and bestLayers (order.go:11-21)
OrderBegin ==
    /\ pc = "order_start"
    /\ \E eo \in Orders(Edges(g)) :
          LET d == addDummyNodes(g, buildLayers(g), eo)
              st == initOrder(d.g, d.layers)
          IN /\ g' = st.g
             /\ layers' = st.layers
             /\ bestLayers' = st.layers
             /\ ccSeen' = <<crossingCount(st.g, st.layers)>>
    /\ bestCC' = MaxInt32
    /\ sweep' = 0
    /\ pc' = "sweep"
    /\ UNCHANGED <<g0, opts, reversedEdges, visited, onStack, todo, stack, rank, changed,
                   runs, prev, ret, simplexVars, compoundVars, routerVars, positionVars>>

\* one turn of the loop: sweepLayerGraphs, crossingCount and the update of
\* the best ordering (order.go:23-30)
OrderSweep ==
    /\ pc = "sweep"
    /\ sweep < Sweeps
    /\ LET st == sweepLayerGraphs([g |-> g, layers |-> layers], sweep)
           cc == crossingCount(st.g, st.layers)
       IN /\ g' = st.g
          /\ layers' = st.layers
          /\ ccSeen' = Append(ccSeen, cc)
          /\ IF cc < bestCC
             THEN bestCC' = cc /\ bestLayers' = st.layers
             ELSE UNCHANGED <<bestCC, bestLayers>>
    /\ sweep' = sweep + 1
    /\ UNCHANGED <<g0, opts, pc, reversedEdges, visited, onStack, todo, stack, rank, changed,
                   runs, prev, ret, simplexVars, compoundVars, routerVars, positionVars>>

\* the loop is left and restoreOrder runs (order.go:33, 260-266)
OrderRestore ==
    /\ pc = "sweep"
    /\ sweep = Sweeps
    /\ g' = setOrders(g, bestLayers, 1)
    /\ pc' = "restored"
    /\ UNCHANGED <<g0, opts, reversedEdges, visited, onStack, todo, stack, rank, changed,
                   runs, prev, ret, orderVars, simplexVars, compoundVars, routerVars, positionVars>>

\* the direct edges made for one dummy (order.go:292-297)
RECURSIVE setEdgesOf(_, _)
setEdgesOf(gr, pairs) ==
    IF pairs = {} THEN gr
    ELSE LET q == CHOOSE x \in pairs : TRUE
         IN setEdgesOf(SetEdge(gr, q[1], q[2], EmptyMap, ""), pairs \ {q})

\* the body of the loop over dummyNodes for one dummy (order.go:280-300)
removeDummy(gr, id) ==
    LET pairs == {<<gr.edges[i].V, gr.edges[o].W>> : i \in nodeIn(gr, id), o \in nodeOut(gr, id)}
    IN RemoveNode(setEdgesOf(gr, pairs), id)

\* removeDummyNodes, the range over g.nodes yielding the dummies in the
\* order ds
RECURSIVE removeDummyNodes(_, _)
removeDummyNodes(gr, ds) ==
    IF ds = <<>> THEN gr ELSE removeDummyNodes(removeDummy(gr, Head(ds)), Tail(ds))

\* removeDummyNodes runs and order returns (order.go:36)
OrderRemoveDummies ==
    /\ pc = "restored"
    /\ \E ds \in Orders({id \in DOMAIN g.nodes : g.nodes[id].Dummy}) : g' = removeDummyNodes(g, ds)
    /\ ret' = [op |-> "order", err |-> "nil"]
    /\ pc' = "ordered"
    /\ UNCHANGED <<g0, opts, reversedEdges, visited, onStack, todo, stack, rank, changed,
                   runs, prev, orderVars, simplexVars, compoundVars, routerVars, positionVars>>

NextOrder ==
    \/ OrderBegin
    \/ OrderSweep
    \/ OrderRestore
    \/ OrderRemoveDummies

----------------------------------------------------------------------------
(* part_002: networkSimplex *)

\* a nil *Node or a nil *Edge is dereferenced: the call panics
NilNodePanic == [op |-> "networkSimplex", err |-> "panic: nil *Node dereference"]
NilEdgePanic == [op |-> "networkSimplex", err |-> "panic: nil *Edge dereference"]

\* the weight and the minlen initNetworkSimplex reads from an edge's
\* attributes (part_002:57-67)
weightOf(e) == IF "weight" \in DOMAIN e.attrs THEN e.attrs["weight"] ELSE 1
minlenOf(e) == IF "minlen" \in DOMAIN e.attrs THEN e.attrs["minlen"] ELSE 1

\* the range over g.edges of part_002:56-75, the edges yielded in the order
\* `order`; sg is no multigraph, so its key for an edge leaves the name out
RECURSIVE copyEdges(_, _, _)
copyEdges(sg, gr, order) ==
    IF order = <<>> THEN sg
    ELSE LET e == gr.edges[Head(order)]
             key == edgeKey(sg, e.V, e.W, e.Name)
             s1 == SetEdge(sg, e.V, e.W, EmptyMap, e.Name)
         IN copyEdges([s1 EXCEPT !.edges[key].Weight = weightOf(e),
                                 !.edges[key].Minlen = minlenOf(e)],
                      gr, Tail(order))

initNetworkSimplex(gr, order) ==
    LET sg == NewGraph([Compound |-> FALSE, Multigraph |-> FALSE, Directed |-> TRUE])
        withNodes == [sg EXCEPT
            !.nodes = [id \in DOMAIN gr.nodes |->
                          [NewNode(id, EmptyMap) EXCEPT !.Width = gr.nodes[id].Width,
                                                        !.Height = gr.nodes[id].Height]],
            !.nodeCount = Cardinality(DOMAIN gr.nodes)]
    IN copyEdges(withNodes, gr, order)

\* the edges of gr both of whose endpoints are nodes
Attached(gr) ==
    {k \in DOMAIN gr.edges : gr.edges[k].V \in DOMAIN gr.nodes /\ gr.edges[k].W \in DOMAIN gr.nodes}

\* one round of relaxations of longestPath.  The loop of part_002:89-102
\* raises ranks until no edge asks for more; whatever the order of the
\* edges it ends in the same ranks, the least ones that satisfy every
\* attached edge, so the model relaxes all edges of a round at once.
relaxRound(gr) ==
    [gr EXCEPT !.nodes = [id \in DOMAIN gr.nodes |->
        [gr.nodes[id] EXCEPT !.Rank =
            SetMax({@} \cup {gr.nodes[gr.edges[k].V].Rank + gr.edges[k].Minlen :
                               k \in {x \in Attached(gr) : gr.edges[x].W = id}})]]]

RECURSIVE relaxToFixpoint(_)
relaxToFixpoint(gr) ==
    LET next == relaxRound(gr) IN IF next = gr THEN gr ELSE relaxToFixpoint(next)

longestPath(gr) ==
    relaxToFixpoint([gr EXCEPT !.nodes = [id \in DOMAIN gr.nodes |-> [gr.nodes[id] EXCEPT !.Rank = 0]]])

\* part_002:108-111
clearTree(gr) ==
    [gr EXCEPT !.edges = [k \in DOMAIN gr.edges |-> [gr.edges[k] EXCEPT !.Tree = FALSE, !.Cutvalue = 0]]]

\* the sets findRoots can return: the nodes no edge points to, or any one
\* node when there is none (part_002:148-170)
findRoots(gr) ==
    LET roots == {id \in DOMAIN gr.nodes : \A k \in DOMAIN gr.edges : gr.edges[k].W # id}
    IN IF roots = {} /\ DOMAIN gr.nodes # {} THEN {{id} : id \in DOMAIN gr.nodes} ELSE {roots}

\* the side of a tree edge that is taken for the tail component
\* (part_002:187-193, part_002:245-251)
tailNode(gr, k) ==
    LET v == gr.nodes[gr.edges[k].V]
        w == gr.nodes[gr.edges[k].W]
    IN IF v.Lim < w.Lim /\ w.Lim <= v.Lim + (w.Lim - w.Low + 1) THEN w ELSE v

inTail(tail, n) == tail.Low <= n.Lim /\ n.Lim <= tail.Lim

\* what edge x adds to the cut value of tree edge k (part_002:198-215)
cutTerm(gr, k, x) ==
    LET tail == tailNode(gr, k)
        vInTail == inTail(tail, gr.nodes[gr.edges[x].V])
        wInTail == inTail(tail, gr.nodes[gr.edges[x].W])
    IN IF vInTail = wInTail THEN 0
       ELSE IF vInTail = (tail.ID = gr.edges[k].W) THEN gr.edges[x].Weight
       ELSE 0 - gr.edges[x].Weight

calcCutValue(gr, k) ==
    LET term(x) == cutTerm(gr, k, x) IN SumOver(DOMAIN gr.edges, term, 0)

treeEdges(gr) == {k \in DOMAIN gr.edges : gr.edges[k].Tree}

\* calcCutValue reads the Lim of both endpoints of every edge without a
\* nil check (part_002:189, part_002:202-203): with a tree edge to compute
\* and an edge whose endpoint is no node, initCutValues panics
initCutValuesPanics(gr) ==
    treeEdges(gr) # {} /\ Attached(gr) # DOMAIN gr.edges

initCutValues(gr) ==
    [gr EXCEPT !.edges = [k \in DOMAIN gr.edges |->
        IF gr.edges[k].Tree THEN [gr.edges[k] EXCEPT !.Cutvalue = calcCutValue(gr, k)]
        ELSE gr.edges[k]]]

\* the edges leaveEdge can return: a tree edge of the least cut value when
\* that value is negative; among several the first the range yields
\* (part_002:221-238)
leaveEdge(gr) ==
    LET T == treeEdges(gr)
        least == {k \in T : \A x \in T : gr.edges[k].Cutvalue <= gr.edges[x].Cutvalue}
    IN {k \in least : gr.edges[k].Cutvalue < 0}

\* enterEdge reads the Lim of both endpoints of every non-tree edge
\* without a nil check (part_002:259-263)
enterEdgePanics(gr, leave) ==
    \/ leave \notin Attached(gr)
    \/ \E k \in DOMAIN gr.edges \ Attached(gr) : ~gr.edges[k].Tree

slack(gr, k) == gr.nodes[gr.edges[k].W].Rank - gr.nodes[gr.edges[k].V].Rank - gr.edges[k].Minlen

\* the edges enterEdge can return: a non-tree edge of the least slack among
\* those with exactly one endpoint in the tail component; none when no
\* non-tree edge crosses (part_002:241-277)
enterEdge(gr, leave) ==
    LET tail == tailNode(gr, leave)
        crossing == {k \in DOMAIN gr.edges :
                        /\ ~gr.edges[k].Tree
                        /\ inTail(tail, gr.nodes[gr.edges[k].V]) # inTail(tail, gr.nodes[gr.edges[k].W])}
    IN {k \in crossing : slack(gr, k) < MaxInt32 /\ \A x \in crossing : slack(gr, k) <= slack(gr, x)}

\* the nodes collect reaches from the ids of S along Parent (part_002:311-320)
RECURSIVE collect(_, _)
collect(gr, S) ==
    LET T == S \cup {c \in DOMAIN gr.nodes : gr.nodes[c].Parent \in S}
    IN IF T = S THEN S ELSE collect(gr, T)

updateRanks(gr, enter, delta) ==
    LET v == gr.nodes[gr.edges[enter].V]
        w == gr.nodes[gr.edges[enter].W]
        updateComponent == IF v.Parent = "" \/ w.Parent = "" THEN collect(gr, {w.ID}) ELSE {}
    IN [gr EXCEPT !.nodes = [id \in DOMAIN gr.nodes |->
           IF id \in updateComponent THEN [gr.nodes[id] EXCEPT !.Rank = @ - delta]
           ELSE gr.nodes[id]]]

\* part_002:334-338
resetTreeStructure(gr) ==
    [gr EXCEPT !.nodes = [id \in DOMAIN gr.nodes |->
        [gr.nodes[id] EXCEPT !.Parent = "", !.Low = 0, !.Lim = 0]]]

normalize(gr) ==
    LET minRank == SetMin({MaxInt32} \cup {gr.nodes[id].Rank : id \in DOMAIN gr.nodes})
    IN [gr EXCEPT !.nodes = [id \in DOMAIN gr.nodes |-> [gr.nodes[id] EXCEPT !.Rank = @ - minRank]]]

\* part_002:30-34
copyRanks(gr, sg) ==
    [gr EXCEPT !.nodes = [id \in DOMAIN gr.nodes |->
        IF id \in DOMAIN sg.nodes THEN [gr.nodes[id] EXCEPT !.Rank = sg.nodes[id].Rank]
        ELSE gr.nodes[id]]]

updateRankBounds(gr) ==
    [gr EXCEPT !.minRank = SetMin({MaxInt32} \cup {gr.nodes[id].Rank : id \in DOMAIN gr.nodes}),
               !.maxRank = SetMax({MinInt32} \cup {gr.nodes[id].Rank : id \in DOMAIN gr.nodes})]

simplexUnchanged == <<g0, opts, reversedEdges, onStack, rank, changed, runs, prev, orderVars,
                      compoundVars, routerVars, positionVars>>

\* a nil dereference ends the call
panicWith(p) ==
    /\ pc' = "panic"
    /\ ret' = p

\* networkSimplex up to the first root of feasibleTree (part_002:10-14,
\* part_002:108-136)
NsBegin ==
    /\ pc = "ns_start"
    /\ \E order \in Orders(DOMAIN g.edges) :
          LET sg == clearTree(longestPath(initNetworkSimplex(g, order))) IN
          /\ simplex' = sg
          /\ \E roots \in findRoots(sg) : todo' = roots
    /\ visited' = {}
    /\ stack' = <<>>
    /\ rootIndex' = 0
    /\ pc' = "ft"
    /\ UNCHANGED <<g, ret, exchanges, postorder, simplexUnchanged>>

\* feasibleTree's loop over the roots yields the next root and calls dfs
\* on it (part_002:137-144, part_002:118-119)
FtRoot ==
    /\ pc = "ft"
    /\ stack = <<>>
    /\ \E root \in todo :
          /\ todo' = todo \ {root}
          /\ IF root \notin visited
             THEN /\ simplex' = [simplex EXCEPT !.nodes[root].Low = rootIndex * TreeGap,
                                                !.nodes[root].Lim = rootIndex * TreeGap]
                  /\ visited' = visited \cup {root}
                  /\ stack' = <<root>>
             ELSE UNCHANGED <<simplex, visited, stack>>
    /\ rootIndex' = rootIndex + 1
    /\ UNCHANGED <<g, pc, ret, exchanges, postorder, simplexUnchanged>>

\* the range over the edges inside dfs yields an edge that leaves v for a
\* node not visited yet: it becomes a tree edge and dfs descends
\* (part_002:122-129).  w is dereferenced without a nil check.
FtEdge ==
    /\ pc = "ft"
    /\ stack # <<>>
    /\ LET v == Last(stack) IN
       \E k \in {x \in DOMAIN simplex.edges : simplex.edges[x].V = v /\ simplex.edges[x].W \notin visited} :
          LET w == simplex.edges[k].W IN
          IF w \notin DOMAIN simplex.nodes
          THEN /\ simplex' = [simplex EXCEPT !.edges[k].Tree = TRUE]
               /\ panicWith(NilNodePanic)
               /\ UNCHANGED <<visited, stack>>
          ELSE /\ simplex' = [simplex EXCEPT !.edges[k].Tree = TRUE,
                                             !.nodes[w].Parent = v,
                                             !.nodes[w].Low = simplex.nodes[v].Lim + 1,
                                             !.nodes[w].Lim = simplex.nodes[v].Lim + 1]
               /\ visited' = visited \cup {w}
               /\ stack' = Append(stack, w)
               /\ UNCHANGED <<pc, ret>>
    /\ UNCHANGED <<g, todo, exchanges, rootIndex, postorder, simplexUnchanged>>

\* the range inside dfs is over: dfs returns, and the caller takes over the
\* Lim of the child (part_002:130)
FtReturn ==
    /\ pc = "ft"
    /\ stack # <<>>
    /\ LET v == Last(stack) IN
       /\ \A x \in DOMAIN simplex.edges : simplex.edges[x].V = v => simplex.edges[x].W \in visited
       /\ simplex' = IF Len(stack) > 1
                     THEN [simplex EXCEPT !.nodes[stack[Len(stack) - 1]].Lim = simplex.nodes[v].Lim]
                     ELSE simplex
    /\ stack' = Front(stack)
    /\ UNCHANGED <<g, pc, ret, visited, todo, exchanges, rootIndex, postorder, simplexUnchanged>>

\* updateTreeStructure's loop over the roots yields the next root and calls
\* dfs on it (part_002:364-368, part_002:346-348)
UtRoot ==
    /\ pc = "uts"
    /\ stack = <<>>
    /\ \E root \in todo :
          /\ todo' = todo \ {root}
          /\ IF root \notin visited
             THEN /\ simplex' = [simplex EXCEPT !.nodes[root].Low = postorder]
                  /\ visited' = visited \cup {root}
                  /\ stack' = <<root>>
             ELSE UNCHANGED <<simplex, visited, stack>>
    /\ UNCHANGED <<g, pc, ret, exchanges, rootIndex, postorder, simplexUnchanged>>

\* the range inside updateTreeStructure's dfs yields a tree edge that
\* leaves v for a node not visited yet (part_002:350-355, part_002:346-348)
UtEdge ==
    /\ pc = "uts"
    /\ stack # <<>>
    /\ LET v == Last(stack) IN
       \E k \in {x \in treeEdges(simplex) : simplex.edges[x].V = v /\ simplex.edges[x].W \notin visited} :
          LET w == simplex.edges[k].W IN
          IF w \notin DOMAIN simplex.nodes
          THEN /\ panicWith(NilNodePanic)
               /\ UNCHANGED <<simplex, visited, stack>>
          ELSE /\ simplex' = [simplex EXCEPT !.nodes[w].Parent = v,
                                             !.nodes[w].Low = postorder]
               /\ visited' = visited \cup {w}
               /\ stack' = Append(stack, w)
               /\ UNCHANGED <<pc, ret>>
    /\ UNCHANGED <<g, todo, exchanges, rootIndex, postorder, simplexUnchanged>>

\* the range inside updateTreeStructure's dfs is over (part_002:358-359)
UtReturn ==
    /\ pc = "uts"
    /\ stack # <<>>
    /\ LET v == Last(stack) IN
       /\ \A x \in treeEdges(simplex) : simplex.edges[x].V = v => simplex.edges[x].W \in visited
       /\ simplex' = [simplex EXCEPT !.nodes[v].Lim = postorder]
    /\ postorder' = postorder + 1
    /\ stack' = Front(stack)
    /\ UNCHANGED <<g, pc, ret, visited, todo, exchanges, rootIndex, simplexUnchanged>>

\* the tree is built, by feasibleTree or by updateTreeStructure:
\* initCutValues follows (part_002:17, part_002:298)
NsInitCutValues ==
    /\ pc \in {"ft", "uts"}
    /\ stack = <<>>
    /\ todo = {}
    /\ IF initCutValuesPanics(simplex)
       THEN /\ panicWith(NilNodePanic)
            /\ UNCHANGED simplex
       ELSE /\ simplex' = initCutValues(simplex)
            /\ pc' = "ns_loop"
            /\ UNCHANGED ret
    /\ UNCHANGED <<g, visited, todo, stack, exchanges, rootIndex, postorder, simplexUnchanged>>

\* one round of the main loop: leaveEdge finds an edge, enterEdge its
\* replacement, exchangeEdges swaps them up to the first root of
\* updateTreeStructure (part_002:21-23, part_002:280-295, part_002:334-363).
\* enter is dereferenced without a nil check.
NsExchange ==
    /\ pc = "ns_loop"
    /\ exchanges < MaxExchanges
    /\ \E leave \in leaveEdge(simplex) :
          IF enterEdgePanics(simplex, leave)
          THEN /\ panicWith(NilNodePanic)
               /\ UNCHANGED <<simplex, visited, todo, stack, exchanges, postorder>>
          ELSE IF enterEdge(simplex, leave) = {}
          THEN /\ simplex' = [simplex EXCEPT !.edges[leave].Tree = FALSE]
               /\ panicWith(NilEdgePanic)
               /\ UNCHANGED <<visited, todo, stack, exchanges, postorder>>
          ELSE \E enter \in enterEdge(simplex, leave) :
               LET swapped == [simplex EXCEPT !.edges[leave].Tree = FALSE,
                                              !.edges[enter].Tree = TRUE]
                   delta == slack(swapped, enter)
                   sg == resetTreeStructure(updateRanks(swapped, enter, delta))
               IN /\ simplex' = sg
                  /\ \E roots \in findRoots(sg) : todo' = roots
                  /\ visited' = {}
                  /\ stack' = <<>>
                  /\ postorder' = 0
                  /\ exchanges' = exchanges + 1
                  /\ pc' = "uts"
                  /\ UNCHANGED ret
    /\ UNCHANGED <<g, rootIndex, simplexUnchanged>>

\* leaveEdge finds no edge: the ranks are normalized and copied to the
\* caller's graph (part_002:27-37)
NsReturn ==
    /\ pc = "ns_loop"
    /\ leaveEdge(simplex) = {}
    /\ simplex' = normalize(simplex)
    /\ g' = updateRankBounds(copyRanks(g, normalize(simplex)))
    /\ pc' = "ns_done"
    /\ ret' = [op |-> "networkSimplex", err |-> "nil"]
    /\ UNCHANGED <<visited, todo, stack, exchanges, rootIndex, postorder, simplexUnchanged>>

NextSimplex ==
    \/ NsBegin
    \/ FtRoot
    \/ FtEdge
    \/ FtReturn
    \/ NsInitCutValues
    \/ NsExchange
    \/ UtRoot
    \/ UtEdge
    \/ UtReturn
    \/ NsReturn

----------------------------------------------------------------------------
(* part_002: processCompoundGraph *)

\* the nodes collapseEdgesToCompounds takes for containers: the parents
\* recorded in g.parent (part_002:426-432)
compounds(gr) == {gr.parent[c] : c \in DOMAIN gr.parent} \ {""}

\* g.children[id], nil for an id without an entry
Children(gr, id) == IF id \in DOMAIN gr.children THEN gr.children[id] ELSE <<>>

findBorderNode(gr, compound, isSource) ==
    LET children == Children(gr, compound) IN
    IF Len(children) = 0 THEN compound
    ELSE IF isSource THEN children[Len(children)] ELSE children[1]

\* the endpoints collapseEdgesToCompounds gives an edge (part_002:451-461)
redirected(gr, e) ==
    [V |-> IF e.V \in compounds(gr) THEN findBorderNode(gr, e.V, TRUE) ELSE e.V,
     W |-> IF e.W \in compounds(gr) THEN findBorderNode(gr, e.W, FALSE) ELSE e.W]

touchesCompound(gr, k) == gr.edges[k].V \in compounds(gr) \/ gr.edges[k].W \in compounds(gr)

\* the map collapseEdgesToCompounds returns (part_002:442-449)
collapsedOf(gr) ==
    [k \in {x \in DOMAIN gr.edges : touchesCompound(gr, x)} |->
        [V |-> gr.edges[k].V, W |-> gr.edges[k].W, Name |-> gr.edges[k].Name,
         Weight |-> gr.edges[k].Weight, Minlen |-> gr.edges[k].Minlen]]

\* the keys of toRemove (part_002:463-470)
toRemoveOf(gr) ==
    {k \in DOMAIN gr.edges : touchesCompound(gr, k) /\
        (redirected(gr, gr.edges[k]).V # gr.edges[k].V \/ redirected(gr, gr.edges[k]).W # gr.edges[k].W)}

\* the first loop over the edges (part_002:436-472): the edges that touch a
\* container get their new endpoints, still under their old keys
redirectEdges(gr) ==
    [gr EXCEPT !.edges = [k \in DOMAIN gr.edges |->
        IF touchesCompound(gr, k)
        THEN [gr.edges[k] EXCEPT !.V = redirected(gr, gr.edges[k]).V,
                                 !.W = redirected(gr, gr.edges[k]).W]
        ELSE gr.edges[k]]]

\* delete(m, k)
Delete(m, k) == [x \in DOMAIN m \ {k} |-> m[x]]

\* the second loop (part_002:475-480), the keys taken in the order toRemove
\* holds them
RECURSIVE rekey(_, _)
rekey(gr, toRemove) ==
    IF toRemove = <<>> THEN gr
    ELSE LET key == Head(toRemove)
             edge == gr.edges[key]
             newKey == edgeKey(gr, edge.V, edge.W, edge.Name)
         IN rekey([gr EXCEPT !.edges = Put(Delete(gr.edges, key), newKey, edge)], Tail(toRemove))

collapseEdgesToCompounds(gr, toRemove) == rekey(redirectEdges(gr), toRemove)

restoreCollapsedEdges(gr, collapsed) ==
    [gr EXCEPT !.edges = [k \in DOMAIN gr.edges |->
        IF k \in DOMAIN collapsed
        THEN [gr.edges[k] EXCEPT !.V = collapsed[k].V, !.W = collapsed[k].W]
        ELSE gr.edges[k]]]

\* buildHierarchy (part_002:527-550): the children of every parent, and
\* under "" the nodes whose parent is "" and the nodes that have neither a
\* parent entry nor children
hierarchyOf(gr, id) ==
    {c \in DOMAIN gr.parent : gr.parent[c] = id}
        \cup (IF id = ""
              THEN {n \in DOMAIN gr.nodes : n \notin DOMAIN gr.parent /\
                                            ~\E c \in DOMAIN gr.parent : gr.parent[c] = n}
              ELSE {})

\* what adjustDimensionsRecursive returns for nodeID, as <<width, height>>
\* (part_002:553-604); depth bounds the recursion by the number of ids
RECURSIVE dimensionsOf(_, _, _)
dimensionsOf(gr, nodeID, depth) ==
    LET children == hierarchyOf(gr, nodeID)
        sizeOf(c) == dimensionsOf(gr, c, depth - 1)
        width(c) == sizeOf(c)[1]
        totalWidth == SumOver(children, width, 0)
        maxHeight == SetMax({0} \cup {sizeOf(c)[2] : c \in children})
        childCount == Cardinality(children)
        minWidth == totalWidth + (childCount - 1) * Px(DimensionNodeSep) + 2 * Px(DimensionPadding)
        minHeight == maxHeight + 2 * Px(DimensionPadding)
    IN IF depth = 0 THEN <<0, 0>>
       ELSE IF nodeID # "" /\ children = {}
       THEN IF nodeID \in DOMAIN gr.nodes
            THEN <<gr.nodes[nodeID].Width, gr.nodes[nodeID].Height>>
            ELSE <<0, 0>>
       ELSE IF nodeID # "" /\ nodeID \in DOMAIN gr.nodes
       THEN <<SetMax({gr.nodes[nodeID].Width, minWidth}), SetMax({gr.nodes[nodeID].Height, minHeight})>>
       ELSE <<totalWidth, maxHeight>>

\* the ids adjustDimensionsRecursive is called on, starting from ""
RECURSIVE visitedFrom(_, _)
visitedFrom(gr, S) ==
    LET T == S \cup UNION {hierarchyOf(gr, id) : id \in S}
    IN IF T = S THEN S ELSE visitedFrom(gr, T)

adjustContainerDimensions(gr) ==
    LET depth == Cardinality(DOMAIN gr.nodes \cup DOMAIN gr.parent) + 2
        reached == visitedFrom(gr, {""})
    IN [gr EXCEPT !.nodes = [id \in DOMAIN gr.nodes |->
           LET sized == IF id \in reached
                        THEN [gr.nodes[id] EXCEPT !.Width = dimensionsOf(gr, id, depth)[1],
                                                  !.Height = dimensionsOf(gr, id, depth)[2]]
                        ELSE gr.nodes[id]
           IN IF id \in DOMAIN gr.parent THEN [sized EXCEPT !.Parent = gr.parent[id]] ELSE sized]]

compoundUnchanged == <<g0, opts, reversedEdges, visited, onStack, todo, stack, rank, changed,
                       runs, prev, ret, orderVars, simplexVars, routerVars, positionVars>>

\* processCompoundGraph is called: it returns at once on a graph that is not
\* compound, and runs collapseEdgesToCompounds on one that is
\* (part_002:406-413)
CollapseEdges ==
    /\ pc = "compound_start"
    /\ IF ~g.compound
       THEN /\ pc' = "compound_done"
            /\ UNCHANGED <<g, collapsedEdges>>
       ELSE /\ \E toRemove \in Orders(toRemoveOf(g)) : g' = collapseEdgesToCompounds(g, toRemove)
            /\ collapsedEdges' = collapsedOf(g)
            /\ pc' = "collapsed"
    /\ UNCHANGED compoundUnchanged

\* part_002:416
AdjustContainerDimensions ==
    /\ pc = "collapsed"
    /\ g' = adjustContainerDimensions(g)
    /\ pc' = "adjusted"
    /\ UNCHANGED <<collapsedEdges, compoundUnchanged>>

\* processCompoundGraph returns and the deferred restoreCollapsedEdges runs
\* (part_002:419)
RestoreCollapsedEdges ==
    /\ pc = "adjusted"
    /\ g' = restoreCollapsedEdges(g, collapsedEdges)
    /\ pc' = "compound_done"
    /\ UNCHANGED <<collapsedEdges, compoundUnchanged>>

NextCompound ==
    \/ CollapseEdges
    \/ AdjustContainerDimensions
    \/ RestoreCollapsedEdges

----------------------------------------------------------------------------
(* part_003: edgeRouter.routeDifferentRankEdge *)

\* the locals of routeDifferentRankEdge and of routeVerticalEdge or
\* routeHorizontalEdge before a call
NoRoute ==
    [rankDir |-> "TB", rankSep |-> 0, src |-> NewNode("", EmptyMap), dst |-> NewNode("", EmptyMap),
     dir |-> 0, r |-> 0, currX |-> 0, currY |-> 0, points |-> <<>>, iterations |-> 0]

\* getRankY and getRankX (part_003:372-379)
getRankY(er, rk) == rk * er.rankSep
getRankX(er, rk) == rk * er.rankSep

\* dir of routeVerticalEdge (part_003:214-220) and of routeHorizontalEdge
\* (part_003:267-273)
routeDir(er) ==
    LET byRank == IF er.src.Rank > er.dst.Rank THEN -1 ELSE 1
    IN IF er.rankDir \in {"BT", "RL"} THEN -byRank ELSE byRank

Vertical(er) == er.rankDir \in {"TB", "BT"}

\* progress times the distance between the ends, added to the start
\* (part_003:236-237, 289-290); the division is exact for the positions of
\* RoutePositions
targetAt(er, start, end) ==
    start + ((end - start) * (er.r - er.src.Rank)) \div (er.dst.Rank - er.src.Rank)

\* one iteration of the loop of routeVerticalEdge (part_003:231-248)
verticalStep(er) ==
    LET rankY == getRankY(er, er.r)
        midY == er.currY + Half(rankY - er.currY)
        targetX == targetAt(er, er.src.X, er.dst.X)
    IN IF Abs(targetX - er.currX) > 0
       THEN [er EXCEPT !.points = @ \o <<Pt(er.currX, midY), Pt(targetX, midY)>>,
                       !.currX = targetX, !.currY = rankY]
       ELSE [er EXCEPT !.points = Append(@, Pt(er.currX, midY)), !.currY = rankY]

\* one iteration of the loop of routeHorizontalEdge (part_003:284-301)
horizontalStep(er) ==
    LET rankX == getRankX(er, er.r)
        midX == er.currX + Half(rankX - er.currX)
        targetY == targetAt(er, er.src.Y, er.dst.Y)
    IN IF Abs(targetY - er.currY) > 0
       THEN [er EXCEPT !.points = @ \o <<Pt(midX, er.currY), Pt(midX, targetY)>>,
                       !.currY = targetY, !.currX = rankX]
       ELSE [er EXCEPT !.points = Append(@, Pt(midX, er.currY)), !.currX = rankX]

\* the points routeVerticalEdge appends after its loop (part_003:252-258)
verticalEnter(er) ==
    LET enterY == er.dst.Y - er.dir * Half(er.dst.Height)
        midY == er.currY + Half(enterY - er.currY)
    IN (IF Abs(er.currX - er.dst.X) > 0
        THEN <<Pt(er.currX, midY), Pt(er.dst.X, midY)>>
        ELSE <<>>) \o <<Pt(er.dst.X, enterY)>>

\* the points routeHorizontalEdge appends after its loop (part_003:305-311)
horizontalEnter(er) ==
    LET enterX == er.dst.X - er.dir * Half(er.dst.Width)
        midX == er.currX + Half(enterX - er.currX)
    IN (IF Abs(er.currY - er.dst.Y) > 0
        THEN <<Pt(midX, er.currY), Pt(midX, er.dst.Y)>>
        ELSE <<>>) \o <<Pt(enterX, er.dst.Y)>>

routerUnchanged == <<g, g0, opts, reversedEdges, visited, onStack, todo, stack, rank, changed,
                     runs, prev, orderVars, simplexVars, compoundVars, positionVars>>

\* routeDifferentRankEdge starts with the centre of src and calls
\* routeVerticalEdge or routeHorizontalEdge, which sets dir, leaves src and
\* starts its loop at src.Rank + dir (part_003:189-200, 210-230, 263-283)
RouteExit ==
    /\ pc = "route_start"
    /\ LET dir == routeDir(router)
           exitY == router.src.Y + dir * Half(router.src.Height)
           exitX == router.src.X + dir * Half(router.src.Width)
       IN router' = [router EXCEPT
              !.dir = dir,
              !.points = <<Pt(router.src.X, router.src.Y),
                           IF Vertical(router) THEN Pt(router.src.X, exitY)
                                               ELSE Pt(exitX, router.src.Y)>>,
              !.currX = IF Vertical(router) THEN router.src.X ELSE exitX,
              !.currY = IF Vertical(router) THEN exitY ELSE router.src.Y,
              !.r = router.src.Rank + dir]
    /\ pc' = "route_loop"
    /\ UNCHANGED <<ret, routerUnchanged>>

\* one iteration of the loop over the intermediate ranks, followed for
\* MaxRouteSteps iterations (part_003:230-249, 283-302)
RouteRank ==
    /\ pc = "route_loop"
    /\ router.r # router.dst.Rank
    /\ router.iterations < MaxRouteSteps
    /\ LET stepped == IF Vertical(router) THEN verticalStep(router) ELSE horizontalStep(router)
       IN router' = [stepped EXCEPT !.r = @ + router.dir, !.iterations = @ + 1]
    /\ UNCHANGED <<pc, ret, routerUnchanged>>

\* the loop ends at dst.Rank: the edge enters dst and routeDifferentRankEdge
\* ends the points with the centre of dst (part_003:202-205, 251-258, 304-311)
RouteEnter ==
    /\ pc = "route_loop"
    /\ router.r = router.dst.Rank
    /\ router' = [router EXCEPT
           !.points = @ \o (IF Vertical(router) THEN verticalEnter(router)
                                                ELSE horizontalEnter(router))
                       \o <<Pt(router.dst.X, router.dst.Y)>>]
    /\ pc' = "route_done"
    /\ ret' = [op |-> "routeDifferentRankEdge", err |-> "nil"]
    /\ UNCHANGED routerUnchanged

NextRoute == RouteExit \/ RouteRank \/ RouteEnter

----------------------------------------------------------------------------
(* position.go: position, horizontalCompaction, verticalAlignment *)

\* the nodes of S by increasing Order (position.go:94-98, 169-171)
RECURSIVE byOrder(_, _)
byOrder(gr, S) ==
    IF S = {} THEN <<>>
    ELSE LET v == CHOOSE x \in S : \A y \in S : gr.nodes[x].Order <= gr.nodes[y].Order
         IN <<v>> \o byOrder(gr, S \ {v})

\* buildLayerMatrix (position.go:79-101)
buildLayerMatrix(gr) ==
    LET maxRank == SetMax({0} \cup {gr.nodes[id].Rank : id \in DOMAIN gr.nodes})
    IN [i \in 1..(maxRank + 1) |-> byOrder(gr, {id \in DOMAIN gr.nodes : gr.nodes[id].Rank = i - 1})]

\* findNeighbors: the nodes of otherLayer at the other end of an edge of
\* node.In or node.Out, in the sequence of otherLayer (position.go:238-260)
findNeighbors(gr, id, otherLayer) ==
    LET neighborSet == {gr.edges[k].V : k \in nodeIn(gr, id)} \cup {gr.edges[k].W : k \in nodeOut(gr, id)}
        isNeighbor(o) == o \in neighborSet
    IN SelectSeq(otherLayer, isNeighbor)

\* verticalAlignment: every node of layer2 with a neighbour in layer1 takes
\* the root of its first (leftAlign) or last neighbour.  align and pos are
\* written and never read by horizontalCompaction (position.go:188-235)
verticalAlignment(gr, layer1, layer2, root, leftAlign) ==
    [id \in DOMAIN root |->
       LET neighbors == findNeighbors(gr, id, layer1)
           u == IF leftAlign THEN neighbors[1] ELSE neighbors[Len(neighbors)]
       IN IF id \in Range(layer2) /\ neighbors # <<>> THEN root[u] ELSE root[id]]

\* the top to bottom loop over the layers (position.go:121-124)
RECURSIVE alignDown(_, _, _, _, _)
alignDown(gr, lay, root, i, leftAlign) ==
    IF i > Len(lay) THEN root
    ELSE alignDown(gr, lay, verticalAlignment(gr, lay[i - 1], lay[i], root, leftAlign), i + 1, leftAlign)

\* the bottom to top loop over the layers (position.go:126-129)
RECURSIVE alignUp(_, _, _, _, _)
alignUp(gr, lay, root, i, leftAlign) ==
    IF i < 1 THEN root
    ELSE alignUp(gr, lay, verticalAlignment(gr, lay[i + 1], lay[i], root, leftAlign), i - 1, leftAlign)

\* the nodes of a layer in the sequence they are placed in: block after
\* block by the smallest Order of the block, by Order within a block
\* (position.go:137-171)
RECURSIVE placementOrder(_, _, _, _)
placementOrder(gr, layer, root, S) ==
    IF S = {} THEN <<>>
    ELSE LET minOrder(v) == SetMin({gr.nodes[w].Order : w \in {x \in Range(layer) : root[x] = root[v]}})
             before(a, b) == \/ minOrder(a) < minOrder(b)
                             \/ minOrder(a) = minOrder(b) /\ gr.nodes[a].Order <= gr.nodes[b].Order
             v == CHOOSE x \in S : \A y \in S : before(x, y)
         IN <<v>> \o placementOrder(gr, layer, root, S \ {v})

\* the x of the nodes of a placed sequence: each node at x + shift, shift
\* being 0, and x moved on by its Width and nodeSep (position.go:149, 174-177)
RECURSIVE placeBlocks(_, _, _, _, _)
placeBlocks(gr, placed, i, x, nodeSep) ==
    IF i > Len(placed) THEN EmptyMap
    ELSE Put(placeBlocks(gr, placed, i + 1, x + gr.nodes[placed[i]].Width + nodeSep, nodeSep),
             placed[i], x)

\* horizontalCompaction (position.go:103-185)
horizontalCompaction(gr, lay, topAlign, leftAlign, nodeSep) ==
    LET root0 == [id \in DOMAIN gr.nodes |-> id]
        root == IF topAlign THEN alignDown(gr, lay, root0, 2, leftAlign)
                ELSE alignUp(gr, lay, root0, Len(lay) - 1, leftAlign)
        placedAt(i) == placeBlocks(gr, placementOrder(gr, lay[i], root, Range(lay[i])), 1, 0, nodeSep)
    IN [id \in DOMAIN gr.nodes |-> placedAt(gr.nodes[id].Rank + 1)[id]]

\* nodeSep, rankSep and rankDir of position (position.go:11-23)
positionNodeSep(gr) == Px(IF "nodesep" \in DOMAIN gr.attrs THEN gr.attrs["nodesep"] ELSE 50)
positionRankSep(gr) == Px(IF "ranksep" \in DOMAIN gr.attrs THEN gr.attrs["ranksep"] ELSE 50)
positionRankDir(gr) == IF "rankdir" \in DOMAIN gr.attrs THEN gr.attrs["rankdir"] ELSE "TB"

\* flipCoordinates (position.go:263-289)
flipCoordinates(nm, rankDir) ==
    LET maxY == SetMax({0} \cup {nm[id].Y : id \in DOMAIN nm})
        maxX == SetMax({0} \cup {nm[id].X : id \in DOMAIN nm})
    IN [id \in DOMAIN nm |->
          IF rankDir = "BT" THEN [nm[id] EXCEPT !.Y = maxY - @]
          ELSE IF rankDir = "RL" THEN [nm[id] EXCEPT !.X = maxX - @]
          ELSE nm[id]]

\* the average of the four alignments (position.go:44-57)
finalX(passes, id) == (passes[1][id] + passes[2][id] + passes[3][id] + passes[4][id]) \div 4

\* the positions position assigns from the four alignments (position.go:59-75)
assignFinal(gr, passes) ==
    LET rankDir == positionRankDir(gr)
        nm == [id \in DOMAIN gr.nodes |->
                 IF rankDir \in {"TB", "BT"}
                 THEN [gr.nodes[id] EXCEPT !.X = finalX(passes, id),
                                           !.Y = gr.nodes[id].Rank * positionRankSep(gr)]
                 ELSE [gr.nodes[id] EXCEPT !.X = gr.nodes[id].Rank * positionRankSep(gr),
                                           !.Y = finalX(passes, id)]]
    IN [gr EXCEPT !.nodes = IF rankDir \in {"BT", "RL"} THEN flipCoordinates(nm, rankDir) ELSE nm]

positionUnchanged == <<g0, opts, reversedEdges, visited, onStack, todo, stack, rank, changed,
                       runs, prev, orderVars, simplexVars, compoundVars, routerVars>>

\* one of the four horizontalCompaction calls of position: top-left,
\* top-right, bottom-left, bottom-right (position.go:26-41)
HorizontalCompaction ==
    /\ pc = "position_start"
    /\ Len(xs) < 4
    /\ xs' = Append(xs, horizontalCompaction(g, buildLayerMatrix(g), Len(xs) \in {0, 1},
                                             Len(xs) \in {0, 2}, positionNodeSep(g)))
    /\ UNCHANGED <<g, pc, ret, positionUnchanged>>

\* position averages the four alignments, assigns the positions and flips
\* them for BT and RL (position.go:43-75)
AssignFinalPositions ==
    /\ pc = "position_start"
    /\ Len(xs) = 4
    /\ g' = assignFinal(g, xs)
    /\ pc' = "position_done"
    /\ ret' = [op |-> "position", err |-> "nil"]
    /\ UNCHANGED <<xs, positionUnchanged>>

NextPosition == HorizontalCompaction \/ AssignFinalPositions

----------------------------------------------------------------------------
(* A second Layout call on an identically built graph *)

\* what a caller reads back after Layout: the edges makeAcyclic reversed,
\* every node's rank, order and box, every edge's route and label anchor
LayoutResult ==
    [reversed |-> Range(reversedEdges),
     nodes |-> [id \in DOMAIN g.nodes |->
                  [Rank |-> g.nodes[id].Rank, Order |-> g.nodes[id].Order,
                   X |-> g.nodes[id].X, Y |-> g.nodes[id].Y,
                   Width |-> g.nodes[id].Width, Height |-> g.nodes[id].Height]],
     edges |-> [k \in DOMAIN g.edges |->
                  [Points |-> g.edges[k].Points, X |-> g.edges[k].X, Y |-> g.edges[k].Y]]]

\* the caller keeps the result, builds the same graph again and is about to
\* call Layout on it with the same options
LayoutAgain ==
    /\ pc = "done"
    /\ runs = 1
    /\ prev' = LayoutResult
    /\ g' = g0
    /\ pc' = "start"
    /\ reversedEdges' = <<>>
    /\ visited' = {}
    /\ onStack' = {}
    /\ todo' = {}
    /\ stack' = <<>>
    /\ rank' = EmptyMap
    /\ changed' = FALSE
    /\ UNCHANGED <<g0, opts, ret, orderVars, simplexVars, compoundVars, routerVars, positionVars, runs>>

----------------------------------------------------------------------------
(* The input graphs *)


\* the sets of at most k elements of S
RECURSIVE UpTo(_, _)
UpTo(S, k) ==
    IF k = 0 THEN {{}}
    ELSE LET P == UpTo(S, k - 1) IN P \cup {p \cup {e} : p \in P, e \in S}

\* the sizes given to SetNode: every node 100 x 50, or sizes that differ
\* from node to node
SizeProfiles == {"uniform", "varied"}
NodeAttrs(profile, i) ==
    IF profile = "uniform" THEN [width |-> 100, height |-> 50]
    ELSE [width |-> 40 * i, height |-> 20 * i]

RECURSIVE addNodes(_, _, _, _)
addNodes(gr, n, profile, i) ==
    IF i > n THEN gr
    ELSE addNodes(SetNode(gr, NodeSeq[i], NodeAttrs(profile, i)), n, profile, i + 1)

\* an edge to add: the arguments of one SetEdge call
EdgeArgs(V, Names, Attrs) ==
    {[v |-> v, w |-> w, name |-> nm, attrs |-> at] : v \in V, w \in V, nm \in Names, at \in Attrs}

RECURSIVE addEdges(_, _)
addEdges(gr, E) ==
    IF E = {} THEN gr
    ELSE LET e == CHOOSE x \in E : TRUE
         IN addEdges(SetEdge(gr, e.v, e.w, e.attrs, e.name), E \ {e})

RECURSIVE addParents(_, _, _)
addParents(gr, par, C) ==
    IF C = {} THEN gr
    ELSE LET c == CHOOSE x \in C : TRUE
         IN addParents(IF par[c] = "" THEN gr ELSE SetParent(gr, c, par[c]), par, C \ {c})

\* the graph a caller builds with NewGraph, SetNode, SetEdge and SetParent
BuildGraph(o, n, profile, E, par) ==
    addParents(addEdges(addNodes(NewGraph(o), n, profile, 1), E), par, DOMAIN par)

\* no two SetEdge calls of E name the same edge
DistinctKeys(gr, E) ==
    \A e1, e2 \in E : edgeKey(gr, e1.v, e1.w, e1.name) = edgeKey(gr, e2.v, e2.w, e2.name) => e1 = e2

\* par holds no cycle: following it from any node ends at a root
RECURSIVE Ancestors(_, _, _)
Ancestors(par, c, n) ==
    IF n = 0 \/ c \notin DOMAIN par \/ par[c] = "" THEN {}
    ELSE {par[c]} \cup Ancestors(par, par[c], n - 1)

IsForest(par) == \A c \in DOMAIN par : c \notin Ancestors(par, c, Cardinality(DOMAIN par))

LocalsZero ==
    /\ reversedEdges = <<>>
    /\ visited = {}
    /\ onStack = {}
    /\ todo = {}
    /\ stack = <<>>
    /\ rank = EmptyMap
    /\ changed = FALSE
    /\ runs = 0
    /\ prev = <<>>
    /\ ret = NoCall
    /\ layers = <<>>
    /\ bestCC = MaxInt32
    /\ bestLayers = <<>>
    /\ sweep = 0
    /\ ccSeen = <<>>
    /\ simplex = NewGraph([Compound |-> FALSE, Multigraph |-> FALSE, Directed |-> TRUE])
    /\ exchanges = 0
    /\ rootIndex = 0
    /\ postorder = 0
    /\ collapsedEdges = EmptyMap
    /\ router = NoRoute
    /\ xs = <<>>

Locals0 ==
    /\ pc = "start"
    /\ LocalsZero

\* structural family: plain graphs of up to MaxNodes nodes and up to
\* MaxEdges edges between any of them, self-loops and cycles included,
\* default options
InitStructural ==
    /\ \E n \in 1..MaxNodes :
         \E E \in UpTo(EdgeArgs(Ids(n), {""}, {EmptyMap}), MaxEdges) :
            g = BuildGraph([Compound |-> FALSE, Multigraph |-> FALSE, Directed |-> TRUE],
                           n, "uniform", E, EmptyMap)
    /\ g0 = g
    /\ opts = DefaultLayoutOptions
    /\ Locals0

\* geometric family: multigraphs of up to MaxNodes nodes and up to
\* MaxGeomEdges named or unnamed edges between different nodes, with or
\* without a minlen attribute, both size profiles, every rank direction
InitGeometric ==
    /\ \E n \in 2..MaxNodes, profile \in SizeProfiles :
         \E E \in UpTo({e \in EdgeArgs(Ids(n), {"", "x", "y"}, {EmptyMap, [minlen |-> 2]}) : e.v # e.w},
                       MaxGeomEdges) :
            LET o == [Compound |-> FALSE, Multigraph |-> TRUE, Directed |-> TRUE] IN
            /\ DistinctKeys(NewGraph(o), E)
            /\ g = BuildGraph(o, n, profile, E, EmptyMap)
    /\ g0 = g
    /\ \E dir \in {"TB", "BT", "LR", "RL"} : opts = [DefaultLayoutOptions EXCEPT !.RankDir = dir]
    /\ Locals0

\* compound family: compound graphs of MaxNodes + 1 nodes nested in any
\* forest, up to MaxCompoundEdges edges between different nodes, sizes that
\* differ from node to node
InitCompound ==
    /\ \E par \in [Ids(MaxNodes + 1) -> Ids(MaxNodes + 1) \cup {""}] :
         \E E \in UpTo({e \in EdgeArgs(Ids(MaxNodes + 1), {""}, {EmptyMap}) : e.v # e.w},
                       MaxCompoundEdges) :
            /\ IsForest(par)
            /\ g = BuildGraph([Compound |-> TRUE, Multigraph |-> FALSE, Directed |-> TRUE],
                              MaxNodes + 1, "varied", E, par)
    /\ g0 = g
    /\ \E dir \in {"TB", "LR"} : opts = [DefaultLayoutOptions EXCEPT !.RankDir = dir]
    /\ Locals0

\* the caller's graph with the ranks rk and with Weight = wt written to
\* every edge (SetEdge leaves Weight 0)
withRanks(gr, rk, wt) ==
    [gr EXCEPT !.nodes = [id \in DOMAIN gr.nodes |-> [gr.nodes[id] EXCEPT !.Rank = rk[id]]],
               !.edges = [k \in DOMAIN gr.edges |-> [gr.edges[k] EXCEPT !.Weight = wt]]]

\* the ranks of the layered family: one node, three nodes, three nodes, one
\* node
LayeredRanks == [a |-> 0, b |-> 1, c |-> 1, d |-> 1, e |-> 2, f |-> 2, g |-> 2, h |-> 3]

\* every node has at most one edge of E coming in and at most one going out
DisjointPaths(E) ==
    \A e1, e2 \in E : e1 # e2 => e1.v # e2.v /\ e1.w # e2.w

\* ranked acyclic graphs handed to order.  Small family: MaxNodes nodes of
\* any ranks up to MaxNodes, up to MaxOrderEdges named or unnamed edges,
\* each from a rank to a larger one, so that edges pass through one or two
\* ranks; Weight is 0, as SetEdge leaves it.  Layered family: eight nodes
\* in four ranks and up to MaxLayeredEdges edges between neighbouring
\* ranks that form disjoint paths; Weight has been set to 1 on every edge.
InitOrder ==
    /\ \/ \E rk \in [Ids(MaxNodes) -> 0..MaxNodes], m \in BOOLEAN :
            \E E \in UpTo({e \in EdgeArgs(Ids(MaxNodes), IF m THEN {"", "x"} ELSE {""}, {EmptyMap}) :
                               rk[e.v] < rk[e.w]}, MaxOrderEdges) :
               LET o == [Compound |-> FALSE, Multigraph |-> m, Directed |-> TRUE] IN
               /\ \E id \in Ids(MaxNodes) : rk[id] = 0
               /\ g = withRanks(BuildGraph(o, MaxNodes, "uniform", E, EmptyMap), rk, 0)
       \/ \E wt \in {1} :
            \E E \in UpTo({e \in EdgeArgs(DOMAIN LayeredRanks, {""}, {EmptyMap}) :
                               LayeredRanks[e.w] = LayeredRanks[e.v] + 1}, MaxLayeredEdges) :
               /\ DisjointPaths(E)
               /\ g = withRanks(BuildGraph([Compound |-> FALSE, Multigraph |-> FALSE, Directed |-> TRUE],
                                           Len(NodeSeq), "uniform", E, EmptyMap), LayeredRanks, wt)
    /\ g0 = g
    /\ opts = DefaultLayoutOptions
    /\ pc = "order_start"
    /\ LocalsZero

IndexOfId(id) == CHOOSE i \in 1..Len(NodeSeq) : NodeSeq[i] = id

\* the SetEdge calls from a node to a later one of NodeSeq: the graphs built
\* from them are acyclic
ForwardEdges(V, Names, Attrs) ==
    {e \in EdgeArgs(V, Names, Attrs) : IndexOfId(e.v) < IndexOfId(e.w)}

\* the SetEdge calls with the id "z", which is never added as a node, at one
\* end
DanglingEdges(V) ==
    {[v |-> v, w |-> "z", name |-> "", attrs |-> EmptyMap] : v \in V}
        \cup {[v |-> "z", w |-> w, name |-> "", attrs |-> EmptyMap] : w \in V}

\* acyclic graphs handed to networkSimplex.  Plain family: up to
\* MaxSimplexNodes nodes and up to MaxSimplexEdges edges, with or without
\* minlen 2.  Multigraph family: up to MaxNodes nodes and up to
\* MaxMultiEdges named or unnamed edges with minlen 2, weight 2 or neither.
\* Dangling family: up to MaxDanglingNodes nodes and up to MaxMultiEdges
\* edges, some of which may start or end at an id that was never added.
InitSimplex ==
    /\ \/ \E n \in 1..MaxSimplexNodes :
            \E E \in UpTo(ForwardEdges(Ids(n), {""}, {EmptyMap, [minlen |-> 2]}), MaxSimplexEdges) :
               LET o == [Compound |-> FALSE, Multigraph |-> FALSE, Directed |-> TRUE] IN
               /\ DistinctKeys(NewGraph(o), E)
               /\ g = BuildGraph(o, n, "uniform", E, EmptyMap)
       \/ \E n \in 2..MaxNodes :
            \E E \in UpTo(ForwardEdges(Ids(n), {"", "x"}, {EmptyMap, [minlen |-> 2], [weight |-> 2]}),
                          MaxMultiEdges) :
               LET o == [Compound |-> FALSE, Multigraph |-> TRUE, Directed |-> TRUE] IN
               /\ DistinctKeys(NewGraph(o), E)
               /\ g = BuildGraph(o, n, "uniform", E, EmptyMap)
       \/ \E n \in 1..MaxDanglingNodes :
            \E E \in UpTo(ForwardEdges(Ids(n), {""}, {EmptyMap}) \cup DanglingEdges(Ids(n)), MaxMultiEdges) :
               /\ E \cap DanglingEdges(Ids(n)) # {}
               /\ g = BuildGraph([Compound |-> FALSE, Multigraph |-> FALSE, Directed |-> TRUE],
                                 n, "uniform", E, EmptyMap)
    /\ g0 = g
    /\ opts = DefaultLayoutOptions
    /\ pc = "ns_start"
    /\ LocalsZero

\* the SetParent calls of a caller: par[c] is the parent given for c, ""
\* included, or NoParent when SetParent is not called for c
NoParent == "-"

RECURSIVE addParentCalls(_, _, _)
addParentCalls(gr, par, C) ==
    IF C = {} THEN gr
    ELSE LET c == CHOOSE x \in C : TRUE
         IN addParentCalls(IF par[c] = NoParent THEN gr ELSE SetParent(gr, c, par[c]), par, C \ {c})

\* par without its NoParent entries
GivenParents(par) == [c \in {x \in DOMAIN par : par[x] # NoParent} |-> par[c]]

\* graphs handed to processCompoundGraph.  Any three or four nodes of
\* different sizes nested in any forest, a root being given the parent ""
\* or no parent at all; with three nodes up to MaxCollapseEdges named or
\* unnamed edges between different nodes, with four nodes up to
\* MaxCompoundEdges unnamed edges; and graphs that are not compound.
InitCompoundProcessing ==
    /\ \/ \E par \in [Ids(MaxNodes) -> Ids(MaxNodes) \cup {"", NoParent}], m \in BOOLEAN :
            \E E \in UpTo({e \in EdgeArgs(Ids(MaxNodes), IF m THEN {"", "x"} ELSE {""}, {EmptyMap}) : e.v # e.w},
                          MaxCollapseEdges) :
               LET o == [Compound |-> TRUE, Multigraph |-> m, Directed |-> TRUE] IN
               /\ IsForest(GivenParents(par))
               /\ DistinctKeys(NewGraph(o), E)
               /\ g = addParentCalls(BuildGraph(o, MaxNodes, "varied", E, EmptyMap), par, DOMAIN par)
       \/ \E par \in [Ids(MaxNodes + 1) -> Ids(MaxNodes + 1) \cup {"", NoParent}] :
            \E E \in UpTo({e \in EdgeArgs(Ids(MaxNodes + 1), {""}, {EmptyMap}) : e.v # e.w},
                          MaxCompoundEdges) :
               /\ IsForest(GivenParents(par))
               /\ g = addParentCalls(BuildGraph([Compound |-> TRUE, Multigraph |-> FALSE, Directed |-> TRUE],
                                                MaxNodes + 1, "varied", E, EmptyMap), par, DOMAIN par)
       \/ \E E \in UpTo({e \in EdgeArgs(Ids(MaxNodes), {""}, {EmptyMap}) : e.v # e.w}, MaxCompoundEdges) :
            g = BuildGraph([Compound |-> FALSE, Multigraph |-> FALSE, Directed |-> TRUE],
                           MaxNodes, "varied", E, EmptyMap)
    /\ g0 = g
    /\ opts = DefaultLayoutOptions
    /\ pc = "compound_start"
    /\ LocalsZero

\* the coordinate of a node across the ranks, in pixels
RoutePositions == {0, 60, 120}

\* a node of 40 by 20 at rank rk of the router's layout, at position p
\* across the ranks
RouteNode(id, rk, p, vertical) ==
    [NewNode(id, [width |-> 40, height |-> 20]) EXCEPT
        !.Rank = rk,
        !.X = IF vertical THEN Px(p) ELSE rk * Px(RouterRankSep),
        !.Y = IF vertical THEN rk * Px(RouterRankSep) ELSE Px(p)]

\* routeDifferentRankEdge called on two nodes of different ranks up to
\* MaxRouteRank, by a router of any rank direction
InitRoute ==
    /\ \E rd \in {"TB", "BT", "LR", "RL"}, rs \in 0..MaxRouteRank, rt \in 0..MaxRouteRank,
          ps \in RoutePositions, pt \in RoutePositions :
         /\ rs # rt
         /\ router = [rankDir |-> rd, rankSep |-> Px(RouterRankSep),
                      src |-> RouteNode("a", rs, ps, rd \in {"TB", "BT"}),
                      dst |-> RouteNode("b", rt, pt, rd \in {"TB", "BT"}),
                      dir |-> 0, r |-> 0, currX |-> 0, currY |-> 0,
                      points |-> <<>>, iterations |-> 0]
    /\ g = NewGraph([Compound |-> FALSE, Multigraph |-> FALSE, Directed |-> TRUE])
    /\ g0 = g
    /\ opts = DefaultLayoutOptions
    /\ pc = "route_start"
    /\ reversedEdges = <<>> /\ visited = {} /\ onStack = {} /\ todo = {} /\ stack = <<>>
    /\ rank = EmptyMap /\ changed = FALSE /\ runs = 0 /\ prev = <<>> /\ ret = NoCall
    /\ layers = <<>> /\ bestCC = MaxInt32 /\ bestLayers = <<>> /\ sweep = 0 /\ ccSeen = <<>>
    /\ simplex = g /\ exchanges = 0 /\ rootIndex = 0 /\ postorder = 0
    /\ collapsedEdges = EmptyMap
    /\ xs = <<>>

\* ranked and ordered graphs handed to position: MaxPositionNodes nodes of
\* widths 40, 80, 120, 160 at any ranks up to MaxPositionRank, numbered
\* within their rank by initOrder; up to MaxPositionEdges edges from a rank
\* to a larger one; any rank direction
InitPosition ==
    /\ \E rk \in [Ids(MaxPositionNodes) -> 0..MaxPositionRank], rd \in {"TB", "BT", "LR", "RL"} :
         \E E \in UpTo({e \in EdgeArgs(Ids(MaxPositionNodes), {""}, {EmptyMap}) : rk[e.v] < rk[e.w]},
                       MaxPositionEdges) :
            LET o == [Compound |-> FALSE, Multigraph |-> FALSE, Directed |-> TRUE]
                ranked == withRanks(BuildGraph(o, MaxPositionNodes, "varied", E, EmptyMap), rk, 1)
                laySets == [i \in 1..(MaxPositionRank + 1) |-> {id \in Ids(MaxPositionNodes) : rk[id] = i - 1}]
            IN /\ \E id \in Ids(MaxPositionNodes) : rk[id] = 0
               /\ g = SetGraph(initOrder(ranked, laySets).g, [rankdir |-> rd])
    /\ g0 = g
    /\ opts = DefaultLayoutOptions
    /\ pc = "position_start"
    /\ LocalsZero

----------------------------------------------------------------------------
(* graph.go: a caller building a graph call by call *)

ApiIds == Ids(MaxApiNodes)
ApiNames == {"", "x"}
ApiEdgeAttrs == {EmptyMap, [weight |-> 2, minlen |-> 2]}

\* a caller has a graph of any kind from NewGraph and has made no call yet
InitApi ==
    /\ \E c \in BOOLEAN, m \in BOOLEAN :
          g = NewGraph([Compound |-> c, Multigraph |-> m, Directed |-> TRUE])
    /\ g0 = g
    /\ opts = DefaultLayoutOptions
    /\ pc = "api"
    /\ LocalsZero

apiUnchanged == <<g0, opts, pc, reversedEdges, visited, onStack, todo, stack, rank,
                  changed, runs, prev, orderVars, simplexVars, compoundVars, routerVars, positionVars>>

ApiSetNode ==
    /\ pc = "api"
    /\ \E id \in ApiIds :
          /\ g' = SetNode(g, id, EmptyMap)
          /\ ret' = [op |-> "SetNode", err |-> "nil"]
    /\ UNCHANGED apiUnchanged

ApiSetEdge ==
    /\ pc = "api"
    /\ \E v \in ApiIds, w \in ApiIds, name \in ApiNames, attrs \in ApiEdgeAttrs :
          /\ edgeKey(g, v, w, name) \in DOMAIN g.edges \/ Cardinality(DOMAIN g.edges) < MaxApiEdges
          /\ g' = SetEdge(g, v, w, attrs, name)
          /\ ret' = [op |-> "SetEdge", err |-> "nil"]
    /\ UNCHANGED apiUnchanged

ApiRemoveNode ==
    /\ pc = "api"
    /\ \E id \in ApiIds :
          /\ g' = RemoveNode(g, id)
          /\ ret' = [op |-> "RemoveNode", err |-> "nil"]
    /\ UNCHANGED apiUnchanged

ApiRemoveEdge ==
    /\ pc = "api"
    /\ \E v \in ApiIds, w \in ApiIds, name \in ApiNames :
          /\ g' = RemoveEdge(g, v, w, name)
          /\ ret' = [op |-> "RemoveEdge", err |-> "nil"]
    /\ UNCHANGED apiUnchanged

ApiSetParent ==
    /\ pc = "api"
    /\ \E c \in ApiIds, p \in ApiIds \cup {""} :
          /\ c \in DOMAIN g.parent \/ Cardinality(DOMAIN g.parent) < MaxApiParents
          /\ g' = SetParent(g, c, p)
          /\ ret' = [op |-> "SetParent", err |-> SetParentErr(g)]
    /\ UNCHANGED apiUnchanged

NextApi ==
    \/ ApiSetNode
    \/ ApiSetEdge
    \/ ApiRemoveNode
    \/ ApiRemoveEdge
    \/ ApiSetParent

\* any sequence of graph calls on a new graph
SpecApi == InitApi /\ [][NextApi]_vars

\* the caller hands the graph built so far to Layout
ApiLayout ==
    /\ pc = "api"
    /\ pc' = "start"
    /\ g0' = g
    /\ UNCHANGED <<g, opts, reversedEdges, visited, onStack, todo, stack, rank,
                   changed, runs, prev, ret, orderVars, simplexVars, compoundVars, routerVars, positionVars>>


----------------------------------------------------------------------------
(* Specifications *)

Next ==
    \/ LayoutBegin
    \/ DfsVisit
    \/ DfsEdge
    \/ DfsReturn
    \/ MakeAcyclicReturn
    \/ RankLoopTest
    \/ RankPass
    \/ OrderNodes
    \/ AssignPositions
    \/ AdjustContainerSizes
    \/ RouteEdges
    \/ RestoreReversed
    \/ CalculateGraphDimensions

NextTwice == Next \/ LayoutAgain

\* one Layout call on a graph of the structural family
Spec == InitStructural /\ [][Next]_vars

\* Layout is one call stack that runs until it returns: a step that can be
\* taken is taken
FairSpec == Spec /\ WF_vars(Next)

\* two Layout calls on identically built graphs of the structural family
SpecTwice == InitStructural /\ [][NextTwice]_vars

\* one Layout call on a graph of the geometric family
SpecGeom == InitGeometric /\ [][Next]_vars

\* one Layout call on a graph of the compound family
SpecCompound == InitCompound /\ [][Next]_vars

\* one call of order on a ranked acyclic graph
SpecOrder == InitOrder /\ [][NextOrder]_vars

\* one call of networkSimplex on an acyclic graph
SpecSimplex == InitSimplex /\ [][NextSimplex]_vars

\* one call of processCompoundGraph
SpecCompoundProcessing == InitCompoundProcessing /\ [][NextCompound]_vars

\* one call of routeDifferentRankEdge
SpecRoute == InitRoute /\ [][NextRoute]_vars

\* one call of position
SpecPosition == InitPosition /\ [][NextPosition]_vars

\* any sequence of graph calls on a new graph, then one Layout call
SpecApiLayout == InitApi /\ [][NextApi \/ ApiLayout \/ Next]_vars

----------------------------------------------------------------------------
(* Claims *)

\* the places of Layout between the return of makeAcyclic and the
\* restoration of the reversed edges
AfterAcyclic == {"rank", "rankpass", "order", "position", "containers", "route", "restore"}

\* the places of Layout between the return of assignRanks and the
\* restoration of the reversed edges
AfterRanks == {"order", "position", "containers", "route", "restore"}

\* C1: whenever Layout returns, every edge has the source and the target it
\* had when Layout was called, and is stored under the key of its (source,
\* target, name); no edge was added or lost.
C1_EdgesRestored ==
    pc = "done" =>
        /\ DOMAIN g.edges = DOMAIN g0.edges
        /\ \A k \in DOMAIN g.edges :
              /\ g.edges[k].V = g0.edges[k].V
              /\ g.edges[k].W = g0.edges[k].W
              /\ g.edges[k].Name = g0.edges[k].Name
              /\ k = edgeKey(g, g.edges[k].V, g.edges[k].W, g.edges[k].Name)

\* C1 witness: Layout has returned on a graph in which makeAcyclic reversed
\* an edge between two different nodes.
C1_Witness ==
    /\ pc = "done"
    /\ \E i \in 1..Len(reversedEdges) : g.edges[reversedEdges[i]].V # g.edges[reversedEdges[i]].W

\* C2: Layout terminates on every finite well-formed graph, self-loops
\* included: every run of Layout reaches its return.
C2_LayoutTerminates == <>(pc = "done")

\* the minimum length the caller gave an edge: the minlen attribute of
\* SetEdge, 1 when there is none
GivenMinlen(e) == IF "minlen" \in DOMAIN e.attrs THEN e.attrs["minlen"] ELSE 1

\* C3: after rank assignment every edge V->W (in its direction during
\* ranking) satisfies rank[W] - rank[V] >= minlen.
C3_RankFeasible ==
    pc \in AfterRanks =>
        \A k \in DOMAIN g.edges :
            LET e == g.edges[k] IN
            (e.V \in DOMAIN g.nodes /\ e.W \in DOMAIN g.nodes) =>
                g.nodes[e.W].Rank - g.nodes[e.V].Rank >= GivenMinlen(e)

\* the pairs (V, W) of the edges of gr
Arcs(gr) == {<<gr.edges[k].V, gr.edges[k].W>> : k \in DOMAIN gr.edges}

\* a directed graph is acyclic iff removing its sources again and again
\* removes every node
RECURSIVE Acyclic(_, _)
Acyclic(N, A) ==
    IF N = {} THEN TRUE
    ELSE LET sources == {n \in N : ~\E a \in A : a[2] = n /\ a[1] \in N}
         IN IF sources = {} THEN FALSE ELSE Acyclic(N \ sources, A)

ArcNodes(A) == {a[1] : a \in A} \cup {a[2] : a \in A}

\* the bookkeeping of the reversals: an edge is in reversedEdges at most
\* once; an edge in it has its endpoints swapped, any other edge has the
\* endpoints it came with
ReversedOnce ==
    /\ \A i, j \in 1..Len(reversedEdges) : reversedEdges[i] = reversedEdges[j] => i = j
    /\ \A k \in DOMAIN g.edges :
          IF k \in Range(reversedEdges)
          THEN g.edges[k].V = g0.edges[k].W /\ g.edges[k].W = g0.edges[k].V
          ELSE g.edges[k].V = g0.edges[k].V /\ g.edges[k].W = g0.edges[k].W

C5_Deterministic ==
    (pc = "done" /\ runs = 2) => LayoutResult = prev

Left(n) == n.X - Half(n.Width)
Right(n) == n.X + Half(n.Width)
Top(n) == n.Y - Half(n.Height)
Bottom(n) == n.Y + Half(n.Height)

\* C6: after Layout every node box, route point and label anchor has
\* non-negative coordinates, and every routed edge starts at the centre of
\* its source and ends at the centre of its target.
C6_OneCoordinateSpace ==
    pc = "done" =>
        /\ \A id \in DOMAIN g.nodes : Left(g.nodes[id]) >= 0 /\ Top(g.nodes[id]) >= 0
        /\ \A k \in DOMAIN g.edges :
              LET e == g.edges[k] IN
              /\ e.X >= 0 /\ e.Y >= 0
              /\ \A i \in 1..Len(e.Points) : e.Points[i].X >= 0 /\ e.Points[i].Y >= 0
              /\ e.Points # <<>> =>
                    /\ e.Points[1] = Pt(g.nodes[e.V].X, g.nodes[e.V].Y)
                    /\ Last(e.Points) = Pt(g.nodes[e.W].X, g.nodes[e.W].Y)

\* the nodes below p in the nesting
RECURSIVE Descendants(_, _, _)
Descendants(gr, p, depth) ==
    IF depth = 0 THEN {}
    ELSE LET kids == childNodes(gr, p)
         IN kids \cup UNION {Descendants(gr, c, depth - 1) : c \in kids}

\* C7: after Layout on a compound graph the box of every node that has
\* children contains the box of every descendant enlarged by the padding.
C7_Containment ==
    pc = "done" =>
        \A p \in DOMAIN g.nodes :
            \A d \in Descendants(g, p, Cardinality(DOMAIN g.nodes)) :
                /\ Left(g.nodes[p]) <= Left(g.nodes[d]) - Px(ContainerPadding)
                /\ Right(g.nodes[p]) >= Right(g.nodes[d]) + Px(ContainerPadding)
                /\ Top(g.nodes[p]) <= Top(g.nodes[d]) - Px(ContainerPadding)
                /\ Bottom(g.nodes[p]) >= Bottom(g.nodes[d]) + Px(ContainerPadding)

\* the gap between u and the node v that follows it along the packing axis
PackingGap(u, v, dir) ==
    IF dir \in {"TB", "BT"} THEN Left(v) - Right(u) ELSE Top(v) - Bottom(u)

\* C8: after Layout any two nodes of one rank, u before v, are apart by at
\* least the node separation along the packing axis.
C8_NodeSeparation ==
    pc = "done" =>
        \A u, v \in DOMAIN g.nodes :
            (g.nodes[u].Rank = g.nodes[v].Rank /\ g.nodes[u].Order < g.nodes[v].Order) =>
                PackingGap(g.nodes[u], g.nodes[v], opts.RankDir) >= Px(opts.NodeSep)

\* C9: after position assignment (TB) a node of rank r+1 has its top at
\* least the rank separation below the bottom of any node of rank r.
C9_RankSeparation ==
    (pc = "containers" /\ opts.RankDir = "TB") =>
        \A u, v \in DOMAIN g.nodes :
            g.nodes[v].Rank = g.nodes[u].Rank + 1 =>
                Top(g.nodes[v]) - Bottom(g.nodes[u]) >= Px(opts.RankSep)

InBox(p, n) == Left(n) <= p.X /\ p.X <= Right(n) /\ Top(n) <= p.Y /\ p.Y <= Bottom(n)

\* C10: on a multigraph, two edges with the same source and target and
\* different names have different point sequences after Layout, each
\* starting at the source node and ending at the target node.
C10_ParallelEdgesApart ==
    (pc = "done" /\ g.multigraph) =>
        \A k1, k2 \in DOMAIN g.edges :
            LET e1 == g.edges[k1]
                e2 == g.edges[k2]
            IN (k1 # k2 /\ e1.V = e2.V /\ e1.W = e2.W /\ e1.Name # e2.Name) =>
                  /\ e1.Points # e2.Points
                  /\ InBox(e1.Points[1], g.nodes[e1.V])
                  /\ InBox(Last(e1.Points), g.nodes[e1.W])

----------------------------------------------------------------------------
(* Claims about the graph store *)

\* the number of times c occurs in the list s
Occurrences(s, c) == Cardinality({i \in 1..Len(s) : s[i] = c})

childrenOf(gr, p) == IF p \in DOMAIN gr.children THEN gr.children[p] ELSE <<>>

\* nothing in the graph refers to id
NoLinkTo(gr, id) ==
    /\ \A k \in DOMAIN gr.edges : gr.edges[k].V # id /\ gr.edges[k].W # id
    /\ id \notin DOMAIN gr.parent
    /\ \A p \in DOMAIN gr.children : Occurrences(gr.children[p], id) = 0
    /\ \A c \in DOMAIN gr.parent : gr.parent[c] # id
    /\ childrenOf(gr, id) = <<>>

\* C11: after RemoveNode(id) on an existing node no stored edge has id as
\* source or target, id has no parent entry and is in no children list, and
\* no other node has id as its parent: the children list of id is empty.
C11_RemoveNodeUnlinks ==
    [][\A id \in ApiIds :
          (pc = "api" /\ ret'.op = "RemoveNode" /\ id \in DOMAIN g.nodes /\ g' = RemoveNode(g, id))
             => NoLinkTo(g', id)]_vars

\* C12: in every state reached by SetNode, SetEdge, RemoveNode, RemoveEdge
\* and SetParent calls, the source and the target of every stored edge are
\* ids of nodes of the graph.
C12_EndpointsExist ==
    \A k \in DOMAIN g.edges :
        g.edges[k].V \in DOMAIN g.nodes /\ g.edges[k].W \in DOMAIN g.nodes

\* C13: the parent table and the children table mirror each other:
\* parent[c] = p exactly when c occurs in children[p], and then c occurs
\* there once; a child given a second parent is in the list of that parent
\* only.
C13_ParentChildrenMirror ==
    \A c \in ApiIds, p \in ApiIds \cup {""} :
        /\ (c \in DOMAIN g.parent /\ g.parent[c] = p) <=> Occurrences(childrenOf(g, p), c) > 0
        /\ Occurrences(childrenOf(g, p), c) <= 1

\* C13 witness: SetParent has just moved a child from one parent to
\* another: the list of the old parent is there and no longer holds it.
C13_Witness ==
    /\ ret.op = "SetParent"
    /\ g.compound
    /\ \E c \in ApiIds, p1 \in ApiIds, p2 \in ApiIds \cup {""} :
          /\ p1 # p2
          /\ p1 \in DOMAIN g.children
          /\ Occurrences(g.children[p1], c) = 0
          /\ c \in DOMAIN g.parent
          /\ g.parent[c] = p2
          /\ Occurrences(childrenOf(g, p2), c) = 1

\* C14: SetParent on a graph that is not compound returns an error and
\* leaves the whole graph as it was; on a compound graph it returns no
\* error; Layout returns no error.
C14_SetParentOnlyOnCompound ==
    [][/\ (pc = "api" /\ ret'.op = "SetParent") =>
             IF g.compound THEN ret'.err = "nil" ELSE ret'.err # "nil" /\ g' = g
       /\ ret'.op = "Layout" => ret'.err = "nil"]_vars

\* C14 witness: SetParent has returned its error on a graph that is not
\* compound and holds nodes.
C14_Witness ==
    /\ pc = "api"
    /\ ret.op = "SetParent"
    /\ ~g.compound
    /\ ret.err # "nil"
    /\ DOMAIN g.nodes # {}

\* C16: every edge created by SetEdge has a positive weight and a minimum
\* length of at least 1: the values of its weight and minlen attributes
\* when they were given, 1 and 1 when they were not.
C16_EdgeDefaults ==
    \A k \in DOMAIN g.edges :
        LET e == g.edges[k] IN
        /\ e.Weight = (IF "weight" \in DOMAIN e.attrs THEN e.attrs["weight"] ELSE 1)
        /\ e.Minlen = (IF "minlen" \in DOMAIN e.attrs THEN e.attrs["minlen"] ELSE 1)
        /\ e.Weight > 0
        /\ e.Minlen >= 1

----------------------------------------------------------------------------
(* Claims about order *)

nodesOfRank(gr, r) == {id \in DOMAIN gr.nodes : gr.nodes[id].Rank = r}

\* C17: after order returns, the Order values of the nodes of every rank
\* are exactly 0, 1, ..., k-1, k the number of nodes of the rank, ranks
\* through which a long edge passed included.
C17_ContiguousOrder ==
    pc = "ordered" =>
        \A r \in 0..maxRankOf(g) :
            /\ {g.nodes[id].Order : id \in nodesOfRank(g, r)} = 0..(Cardinality(nodesOfRank(g, r)) - 1)
            /\ \A x, y \in nodesOfRank(g, r) : g.nodes[x].Order = g.nodes[y].Order => x = y

\* the identities (source, target, name) of the edges of a graph
EdgeIdentities(gr) == {<<gr.edges[k].V, gr.edges[k].W, gr.edges[k].Name>> : k \in DOMAIN gr.edges}

\* C18: order is a round trip on the structure of the graph: after it
\* returns no dummy node is left, the nodes are the nodes before the call
\* and the edge identities (source, target, name) are those before the call.
C18_OrderRoundTrip ==
    pc = "ordered" =>
        /\ \A id \in DOMAIN g.nodes : ~g.nodes[id].Dummy
        /\ DOMAIN g.nodes = DOMAIN g0.nodes
        /\ EdgeIdentities(g) = EdgeIdentities(g0)

\* the inversions between neighbouring ranks in the ordering the nodes
\* carry: the pairs of edges from a rank to the next whose sources and
\* targets are in opposite order
Inversions(gr) ==
    Cardinality({q \in (DOMAIN gr.edges) \X (DOMAIN gr.edges) :
        LET e1 == gr.edges[q[1]]
            e2 == gr.edges[q[2]]
        IN /\ {e1.V, e1.W, e2.V, e2.W} \subseteq DOMAIN gr.nodes
           /\ gr.nodes[e1.V].Rank = gr.nodes[e2.V].Rank
           /\ gr.nodes[e1.W].Rank = gr.nodes[e1.V].Rank + 1
           /\ gr.nodes[e2.W].Rank = gr.nodes[e2.V].Rank + 1
           /\ gr.nodes[e1.V].Order < gr.nodes[e2.V].Order
           /\ gr.nodes[e1.W].Order > gr.nodes[e2.W].Order})

\* C19: the ordering that order restores has a crossing count that is the
\* smallest of the counts seen after the 24 sweeps and is at most the
\* crossing count of the initial ordering, every layer sorted by id.
C19_CrossingsNotAboveInitial ==
    pc = "restored" =>
        /\ \A i \in 2..Len(ccSeen) : Inversions(g) <= ccSeen[i]
        /\ \E i \in 2..Len(ccSeen) : Inversions(g) = ccSeen[i]
        /\ Inversions(g) <= ccSeen[1]



----------------------------------------------------------------------------
(* Claims about networkSimplex *)

\* the caller's graph holds an edge one of whose ends was never added
HasDanglingEdge(gr) ==
    \E k \in DOMAIN gr.edges : gr.edges[k].V \notin DOMAIN gr.nodes \/ gr.edges[k].W \notin DOMAIN gr.nodes

\* C15: on a graph with an edge whose source or target was never added with
\* SetNode, network-simplex ranking (feasibleTree, calcCutValue, enterEdge)
\* completes without dereferencing a missing node.
C15_MissingNodeNeverDereferenced ==
    HasDanglingEdge(g0) => ~(pc = "panic" /\ ret = NilNodePanic)

\* C20: after networkSimplex returns on an acyclic graph, every edge of g
\* satisfies rank[W] - rank[V] >= minlen (the minlen attribute, default 1),
\* and the minimum rank is 0.
C20_SimplexFeasible ==
    (pc = "ns_done" /\ ~HasDanglingEdge(g0)) =>
        /\ \A k \in DOMAIN g.edges :
              g.nodes[g.edges[k].W].Rank - g.nodes[g.edges[k].V].Rank >= GivenMinlen(g.edges[k])
        /\ \A id \in DOMAIN g.nodes : g.nodes[id].Rank >= 0
        /\ \E id \in DOMAIN g.nodes : g.nodes[id].Rank = 0


\* the sum over the tree edges of (rank[W] - rank[V]) * Weight
TreeLength(gr) ==
    LET term(k) == (gr.nodes[gr.edges[k].W].Rank - gr.nodes[gr.edges[k].V].Rank) * gr.edges[k].Weight
    IN SumOver(treeEdges(gr), term, 0)

\* C21: every exchange of networkSimplex's loop (leaveEdge, enterEdge,
\* exchangeEdges) strictly decreases the sum over the tree edges of
\* (rank[W] - rank[V]) * Weight.
C21_ExchangeDecreasesTreeLength ==
    [][(pc = "ns_loop" /\ pc' = "uts" /\ ~HasDanglingEdge(g0))
          => TreeLength(simplex') < TreeLength(simplex)]_vars

\* C24: whenever leaveEdge returns a tree edge, enterEdge returns an edge:
\* exchangeEdges is never called with a nil entering edge.
C24_EnterEdgeFound ==
    ~HasDanglingEdge(g0) => ~(pc = "panic" /\ ret = NilEdgePanic)

\* the nodes joined to a node of S by edges of K, read as undirected edges
RECURSIVE Component(_, _, _)
Component(gr, K, S) ==
    LET T == S \cup {gr.edges[k].W : k \in {x \in K : gr.edges[x].V \in S}}
               \cup {gr.edges[k].V : k \in {x \in K : gr.edges[x].W \in S}}
    IN IF T = S THEN S ELSE Component(gr, K, T)

Components(gr, K) == {Component(gr, K, {id}) : id \in DOMAIN gr.nodes}

\* feasibleTree has returned and initCutValues has not run yet
FeasibleTreeDone == pc = "ft" /\ stack = <<>> /\ todo = {}

\* C25: after feasibleTree the edges flagged Tree form a spanning tree of
\* every connected component (they join whatever the edges join and hold no
\* cycle), and every tree edge is tight: rank[W] - rank[V] = Minlen.
C25_FeasibleSpanningTree ==
    (FeasibleTreeDone /\ ~HasDanglingEdge(g0)) =>
        /\ Components(simplex, treeEdges(simplex)) = Components(simplex, DOMAIN simplex.edges)
        /\ Cardinality(treeEdges(simplex)) =
              Cardinality(DOMAIN simplex.nodes) - Cardinality(Components(simplex, DOMAIN simplex.edges))
        /\ \A k \in treeEdges(simplex) : slack(simplex, k) = 0


----------------------------------------------------------------------------
(* Claims about the sweeps of order *)

\* the barycenter the sweep is to give a node, as the fraction
\* <<sum, weight>>: the weighted average of the Order its neighbours in the
\* layer processed just before have after the sweep (the layer above in a
\* downward sweep, the layer below in an upward one), or the Order the node
\* had before the sweep when it has no such neighbour
AdjacentBarycenter(before, after, id, downward) ==
    LET es == IF downward THEN nodeIn(after, id) ELSE nodeOut(after, id)
        other(k) == IF downward THEN after.edges[k].V ELSE after.edges[k].W
        known == {k \in es : other(k) \in DOMAIN after.nodes}
        term(k) == after.nodes[other(k)].Order * after.edges[k].Weight
        wt(k) == after.edges[k].Weight
        sum == SumOver(known, term, 0)
        weight == SumOver(known, wt, 0)
    IN IF weight > 0 THEN <<sum, weight>> ELSE <<before.nodes[id].Order, 1>>

\* the layers a sweep sorts: all but the first in a downward sweep, all but
\* the last in an upward one
SweptLayers(lay, downward) ==
    IF downward THEN 2..Len(lay) ELSE 1..(Len(lay) - 1)

\* C27: a downward sweep leaves every layer i sorted by the weighted
\* average of the Order of the nodes' neighbours in layer i-1, an upward
\* sweep by that of their neighbours in layer i+1; a node without such a
\* neighbour counts with its current order, and ties are broken by node id.
C27_SweepUsesProcessedLayer ==
    [][(pc = "sweep" /\ sweep' = sweep + 1) =>
          LET downward == sweep % 2 = 0 IN
          \A i \in SweptLayers(layers', downward) :
             LET b == [id \in Range(layers'[i]) |-> AdjacentBarycenter(g, g', id, downward)] IN
             \A u, v \in Range(layers'[i]) :
                IndexOf(layers'[i], u) < IndexOf(layers'[i], v) => ~baryLess(b, v, u)]_vars


----------------------------------------------------------------------------
(* Claims about the phases of Layout *)

\* the places of Layout after routeEdges has run
AfterRouting == {"restore", "dimensions", "done"}

\* every node of after is the node of before moved by (dx, dy)
MovedBy(before, after, dx, dy) ==
    /\ DOMAIN after.nodes = DOMAIN before.nodes
    /\ \A id \in DOMAIN before.nodes :
          /\ after.nodes[id].X = before.nodes[id].X + dx
          /\ after.nodes[id].Y = before.nodes[id].Y + dy
          /\ after.nodes[id].Width = before.nodes[id].Width
          /\ after.nodes[id].Height = before.nodes[id].Height

\* a step that leaves the geometry of every node alone, or is the final
\* translation and moves every node by the same amount
GeometryKept ==
    \/ MovedBy(g, g', 0, 0)
    \/ /\ pc = "dimensions"
       /\ \E n \in DOMAIN g.nodes :
             MovedBy(g, g', g'.nodes[n].X - g.nodes[n].X, g'.nodes[n].Y - g.nodes[n].Y)

\* C23: edges are routed only after node positions and sizes are final:
\* after routeEdges has run, no node's X, Y, Width or Height changes except
\* by the final translation, which moves every node by the same amount.
C23_GeometryFinalBeforeRouting ==
    [][(pc \in AfterRouting) => GeometryKept]_vars


----------------------------------------------------------------------------
(* Claims about processCompoundGraph *)

\* C22: when processCompoundGraph has returned, every edge that was
\* redirected to a border child has its original V and W again and is found
\* under its original key; no edge was lost or merged with another.
C22_CollapsedEdgesRestored ==
    (pc = "compound_done" /\ g0.compound) =>
        /\ DOMAIN g.edges = DOMAIN g0.edges
        /\ \A k \in DOMAIN g0.edges :
              g.edges[k].V = g0.edges[k].V /\ g.edges[k].W = g0.edges[k].W

\* a container: a node with children
IsContainer(gr, id) == Len(Children(gr, id)) > 0

\* C28: after collapseEdgesToCompounds no edge has a source or a target
\* that is a container, also when containers are nested, and the number of
\* edges in the graph is unchanged.
C28_NoEdgeAtContainer ==
    pc = "collapsed" =>
        /\ \A k \in DOMAIN g.edges :
              ~IsContainer(g, g.edges[k].V) /\ ~IsContainer(g, g.edges[k].W)
        /\ Cardinality(DOMAIN g.edges) = Cardinality(DOMAIN g0.edges)

\* the sum of the widths of the nodes of the sequence ids
RECURSIVE WidthSum(_, _)
WidthSum(gr, ids) ==
    IF ids = <<>> THEN 0 ELSE gr.nodes[Head(ids)].Width + WidthSum(gr, Tail(ids))

\* C29: after adjustContainerDimensions every container, top-level
\* containers without a parent included, has Width >= the sum of its
\* children's widths + (number of children - 1) * 50 + 2 * 30 and
\* Height >= the largest child height + 2 * 30.
C29_ContainersLargeEnough ==
    pc = "adjusted" =>
        \A p \in DOMAIN g.nodes :
            IsContainer(g, p) =>
                LET children == Children(g, p) IN
                /\ g.nodes[p].Width >= WidthSum(g, children) + (Len(children) - 1) * Px(50) + 2 * Px(30)
                /\ g.nodes[p].Height >= SetMax({g.nodes[c].Height : c \in Range(children)}) + 2 * Px(30)

----------------------------------------------------------------------------
(* Claims about routeDifferentRankEdge *)

\* C26: routeDifferentRankEdge terminates for every pair of nodes of
\* different rank and every rank direction: its loop over the intermediate
\* ranks reaches dst.Rank after at most |dst.Rank - src.Rank| - 1 iterations
C26_RouteLoopBounded ==
    pc \in {"route_loop", "route_done"} =>
        router.iterations <= Abs(router.dst.Rank - router.src.Rank) - 1

----------------------------------------------------------------------------
(* Claims about position *)

\* x keeps the nodes of every rank in Order sequence and separated: a node
\* is at least the Width of a node of its rank with a smaller Order, and
\* nodeSep, to the right of it
Separated(gr, x) ==
    \A u, v \in DOMAIN gr.nodes :
        (gr.nodes[u].Rank = gr.nodes[v].Rank /\ gr.nodes[u].Order < gr.nodes[v].Order)
            => x[v] - x[u] >= gr.nodes[u].Width + positionNodeSep(gr)

\* the coordinate position assigned across the ranks
FinalCoordinate(gr) ==
    [id \in DOMAIN gr.nodes |->
        IF positionRankDir(gr) \in {"TB", "BT"} THEN gr.nodes[id].X ELSE gr.nodes[id].Y]

\* C30: each of the four horizontalCompaction passes of position, and the
\* final coordinate obtained by averaging them, keeps every rank in Order
\* sequence and separated by the Width of the left node and nodeSep, also
\* when a node has several neighbours in the adjacent layer
C30_AlignmentsSeparated ==
    /\ \A i \in 1..Len(xs) : Separated(g, xs[i])
    /\ pc = "position_done" => Separated(g, FinalCoordinate(g))

====
